------------------------------ MODULE Renderers ------------------------------
(***************************************************************************)
(* A vkg::Renderer: a shader, the vkg::Pipeline made of it, the            *)
(* vkg::DescriptorPool and the one vkg::Descriptor, whose set is written   *)
(* by bind; and the frames of a chain that draw with them.  Handles are    *)
(* numbered; those destroyed stay in the objects that held them.           *)
(***************************************************************************)
EXTENDS Shaders

CONSTANTS
  Files,              \* the .nyx files there are
  Buffers, Images,    \* what is bound
  Passes,             \* colour attachments of the first subpass, of each pass
  RendererLiberties,
  MaxPipelines,       \* bound: pipelines made
  MaxFrames,          \* bound: frames drawn
  MaxHand             \* bound: things added to a shader by hand

(* "rebuild": a viewport is added while frames use the pipeline.           *)
(* "rebind": bind while the frame being recorded uses the set.             *)
(* "unbound": a draw before every uniform was bound.                       *)
(* "moved": a draw after a bound image changed its layout.                 *)
(* "again": the renderer is used, reset or initialised after reset.        *)
(* "anew": the renderer is initialised a second time without reset.        *)
(* "bare": it is initialised before it has a viewport.                     *)
(* "compute": a pipeline is initialised without a pass.                    *)
(* "undepth": the depth test is switched on and off.                       *)
(* "subpass": a draw in another subpass than the first.                    *)
(* "colors": the pass has not as many colours as the shader has outputs.   *)
(* "device": a pool with inputs of its own is initialised, by initialize() *)
(*   that tells it no device.                                              *)
(* "kind": a buffer is bound to the name of a sampler, or an image to one  *)
(*   that is none.                                                         *)
ASSUME RendererAssumption ==
  /\ Passes \subseteq Nat /\ MaxPipelines \in Nat /\ MaxFrames \in Nat /\ MaxHand \in Nat
  /\ RendererLiberties \subseteq {"rebuild", "rebind", "unbound", "moved", "again", "anew", "bare",
                                  "compute", "undepth", "subpass", "colors", "device", "kind"}
ASSUME FilesAssumption == Files \subseteq FilesOf

VARIABLES
  shader,     \* NyxShaderData
  pipeline,   \* PipelineData: what it is told, its handle, what that was made of
  alive,      \* the pipelines that are not destroyed
  pool,       \* DescriptorPoolData
  set,        \* DescriptorData: the set's handle and what was written to it
  layouts,    \* the layout of each image; a buffer's says nothing
  caller,     \* the call the main thread is in
  open,       \* the frame recorded
  pending,    \* the frames with the device, oldest first
  drawn,      \* frames drawn
  fault

recording == <<open, pending, drawn>>
vars == <<shader, pipeline, alive, pool, set, layouts, caller, open, pending, drawn, fault>>

Resources == Buffers \union Images

Idle  == [op |-> "none", name |-> "none", with |-> <<>>]
Blank == [pipelines |-> {}, set |-> "none", content |-> Nothing]

NotMade == [stages |-> {}, locations |-> <<>>, blend |-> <<>>, colors |-> 0,
            depth |-> FALSE, asked |-> FALSE]

Init ==
  /\ shader = NoShader
  /\ pipeline = [handle |-> 0, made |-> NotMade, viewports |-> 0, blend |-> <<TRUE>>,
                 colors |-> 0, depth |-> FALSE, asked |-> FALSE, reset |-> FALSE]
  /\ alive = {}
  /\ pool = [map |-> Nothing, amount |-> 20, made |-> FALSE]
  /\ set = [handle |-> "none", known |-> Nothing, content |-> Nothing]
  /\ layouts = [r \in Resources |-> "ShaderRead"]
  /\ caller = Idle
  /\ open = Blank /\ pending = <<>> /\ drawn = 0
  /\ fault = "none"

Permits(liberty) == liberty \in RendererLiberties

\* The main thread is between two calls.
Ready == fault = "none" /\ caller.op = "none"

Initialized == pipeline.handle # 0

\* The pipelines that the frame recorded and those with the device use.
InUse == open.pipelines \union UNION {pending[k].pipelines : k \in DOMAIN pending}

Using(handle) == handle \in InUse

-----------------------------------------------------------------------------
(* Pipelines. *)

(* createLayout: the vector of attachments gets the size of the shader's   *)
(* outputs; what is new in it writes no colour.                            *)
Resized(blend, size) == [k \in 1 .. size |-> IF k <= Len(blend) THEN blend[k] ELSE FALSE]

(* createLayout, then createPipeline, of shader s and the pass of p.  The   *)
(* count of viewports is 1 from the start: the driver reads the first of   *)
(* the list, and those added later are never a pipeline's.                 *)
Created(p, s, handle) ==
  LET blend == Resized(p.blend, s.file.outputs)
  IN  [p EXCEPT !.handle = handle, !.blend = blend, !.reset = FALSE,
                !.made = [stages |-> {<<t, s.modules[t]>> : t \in DOMAIN s.modules},
                          locations |-> s.locations, blend |-> blend, colors |-> p.colors,
                          depth |-> p.depth, asked |-> p.asked]]

NextHandle == pipeline.handle + 1

(* Pipeline::reset destroys what the handle says, and keeps the handle.    *)
Destroyed(handle) == alive \ {handle}

DestroyFault(handle) ==
  IF handle = 0 THEN "none"
  ELSE IF handle \notin alive THEN "destroyed twice"
  ELSE IF Using(handle) THEN "destroyed in use"
  ELSE "none"

\* Renderer::addViewport makes the pipeline again if there is one, or was.
MustRemake == Initialized

AddViewport ==
  LET told == [pipeline EXCEPT !.viewports = @ + 1]
  IN  /\ Ready
      /\ pipeline.viewports < MaxPipelines
      /\ pipeline.reset => Permits("again")
      /\ Using(pipeline.handle) => Permits("rebuild")
      /\ NextHandle <= MaxPipelines
      /\ pipeline' = IF MustRemake THEN Created(told, shader, NextHandle) ELSE told
      /\ alive' = IF MustRemake THEN Destroyed(pipeline.handle) \union {NextHandle} ELSE alive
      /\ fault' = IF MustRemake THEN DestroyFault(pipeline.handle) ELSE fault
      /\ UNCHANGED <<shader, pool, set, layouts, caller, recording>>

(* Pipeline::setTestDepth: switching off leaves what was switched on, and  *)
(* either is of the pipelines made from now on.                            *)
SetTestDepth(on) ==
  /\ Ready
  /\ ~on => Permits("undepth")
  /\ pipeline' = [pipeline EXCEPT !.depth = @ \/ on, !.asked = on]
  /\ UNCHANGED <<shader, alive, pool, set, layouts, caller, recording, fault>>

-----------------------------------------------------------------------------
(* Descriptors. *)

\* convert( UniformType ) of Descriptor.cpp.
PoolType(type) ==
  CASE type = "Sampler" -> "CombinedImageSampler"
    [] type = "InputImage" -> "StorageBuffer"
    [] OTHER -> "UniformBuffer"

(* DescriptorPool::initialize( shader ) adds to the map; a uniform of a    *)
(* later stage replaces one of the same name.                              *)
WithUniform(map, u) == [n \in DOMAIN map \union {u.name} |-> IF n = u.name THEN u ELSE map[n]]

Uniforms(map, s) ==
  LET all == Declared(s.file.map)
      told[k \in 0 .. Len(all)] == IF k = 0 THEN map ELSE WithUniform(told[k - 1], all[k].is)
  IN  told[Len(all)]

(* initialize(): the amount, once for each uniform, whatever its size.     *)
Holds(p, type) == p.amount * Cardinality({n \in DOMAIN p.map : PoolType(p.map[n].type) = type})

DescriptorTypes == {"UniformBuffer", "StorageBuffer", "CombinedImageSampler", "StorageImage", "Sampler"}

\* Descriptors of a type that one set of the shader's layout takes.
Takes(s, type) ==
  LET of == {n \in DOMAIN s.descriptors : s.descriptors[n].type = type}
  IN  Cardinality(UNION {{n} \X (1 .. s.descriptors[n].count) : n \in of})

Serves(p, s) == \A type \in DescriptorTypes : Takes(s, type) <= Holds(p, type)

\* DescriptorPool::initialize: no pool for an empty file or no uniforms.
Pooled(s) ==
  LET with == [pool EXCEPT !.amount = 1, !.map = Uniforms(@, s)]
  IN  IF DOMAIN s.file.map = {} THEN [pool EXCEPT !.amount = 1]
      ELSE [with EXCEPT !.made = @ \/ DOMAIN with.map # {}]

(* make and Descriptor::initialize: a copy of the map, and a set; which    *)
(* is none if there is no pool, and may be if the pool has too little.     *)
SetsOf(p, s) ==
  IF ~p.made THEN {[handle |-> "none", known |-> Nothing, content |-> Nothing]}
  ELSE {[handle |-> h, known |-> p.map, content |-> Nothing] :
          h \in {"made"} \union (IF Serves(p, s) THEN {} ELSE {"failed"})}

(* Descriptor::set for count resources: more than the uniform's size are   *)
(* left out, an unknown name is ignored.                                   *)
Taken(count, size) == IF count < size THEN count ELSE size

LayoutWhenSet(r) == layouts[r]

\* Whether a resource is what the uniform of that name is written as.
OfKind(name, r) ==
  name \in DOMAIN set.known =>
    (PoolType(set.known[name].type) = "CombinedImageSampler") = (r \in Images)

SetContent(name, with) ==
  IF name \notin DOMAIN set.known THEN set
  ELSE [set EXCEPT !.content = [n \in DOMAIN @ \union {name} |->
          IF n = name THEN [k \in 1 .. Taken(Len(with), set.known[name].size) |->
                              [is |-> with[k], layout |-> LayoutWhenSet(with[k]), moved |-> FALSE]]
          ELSE @[n]]]

-----------------------------------------------------------------------------
(* The renderer. *)

InitializeFault(s, pass, colors) ==
  IF ~pass THEN "unknown pass"
  ELSE IF DOMAIN s.modules = {} THEN "no stages"
  ELSE IF pipeline.viewports = 0 THEN "no viewport"
  ELSE IF s.file.outputs # colors THEN "other attachments than the pass"
  ELSE "none"

\* What was added to a shader by hand.
HandSize == Len(shader.locations) + Cardinality(DOMAIN shader.descriptors) + Cardinality(shader.spirv)

MayInitialize ==
  /\ pipeline.viewports = 0 => Permits("bare")
  /\ ~Initialized => HandSize = 0
  /\ Initialized => IF pipeline.reset THEN Permits("again") ELSE Permits("anew")

\* What is made of the shader s, for a pass with that many colours.
Makes(s, colors) ==
  /\ NextHandle <= MaxPipelines
  /\ colors = s.file.outputs \/ Permits("colors")
  /\ shader' = s
  /\ pipeline' = Created([pipeline EXCEPT !.colors = colors], s, NextHandle)
  /\ alive' = alive \union {NextHandle}

(* Renderer::initialize, Pipeline::initialize.  Without a pass it is what  *)
(* was in memory.                                                          *)
Initialize(file, pass, colors) ==
  LET s == InitializeShader(shader, file)
  IN  /\ Ready /\ MayInitialize
      /\ pass \/ Permits("compute")
      /\ Makes(s, colors)
      /\ fault' = InitializeFault(s, pass, colors)
      /\ pool' = Pooled(s)
      /\ set' \in SetsOf(Pooled(s), s)
      /\ UNCHANGED <<layouts, caller, recording>>

(* A shader, a pool and a pipeline by hand. *)
BuildByHand ==
  /\ Ready /\ ~Initialized /\ HandSize < MaxHand
  /\ \/ /\ shader' = AddAttribute(shader, Len(shader.locations), 16)
        /\ UNCHANGED pool
     \/ \E stage \in {"Vertex", "Fragment"} \ shader.spirv :
          /\ shader' = AddShaderModule(shader, stage)
          /\ UNCHANGED pool
     \/ \E kind \in {"UniformBuffer", "Sampled"} :
          /\ kind \notin DOMAIN shader.descriptors
          /\ shader' = AddDescriptor(shader, kind, kind, "Vertex")
          /\ pool' = [pool EXCEPT !.map = WithUniform(@,
               [name |-> kind, size |-> 1, binding |-> shader'.descriptors[kind].binding,
                type |-> IF kind = "Sampled" THEN "Sampler" ELSE "Ubo"])]
  /\ UNCHANGED <<pipeline, alive, set, layouts, caller, recording, fault>>

HandMade == shader.spirv # {} /\ DOMAIN shader.file.map = {}

(* NyxShader::initialize( device ), Pipeline::initialize( pass, shader ),  *)
(* and a pool of either kind: initialize( shader ) has no file to read and *)
(* makes none, initialize() makes it of a device that nobody has set.      *)
InitializeByHand(colors, told) ==
  LET s == MakeShader(shader)
      lost == ~told /\ DOMAIN pool.map # {}
  IN  /\ Ready /\ ~Initialized /\ HandMade
      /\ pipeline.viewports # 0
      /\ lost => Permits("device")
      /\ Makes(s, colors)
      /\ fault' = IF lost THEN "pool of no device" ELSE InitializeFault(s, TRUE, colors)
      /\ pool' = IF told THEN Pooled(s) ELSE pool
      /\ set' \in SetsOf(pool, s)
      /\ UNCHANGED <<layouts, caller, recording>>

\* Mutant: nobody waits for the device.
NoWait == TRUE

\* bind: Vulkan::deviceSynchronize returns when the device has nothing to do.
DeviceIdle == pending = <<>>

\* reset: so does Device::wait.
DeviceWaited == pending = <<>>

\* The first half of bind and of reset: they wait for the device.
Call(op, name, with) ==
  /\ Ready /\ Initialized
  /\ pipeline.reset => Permits("again")
  /\ open.set # "none" /\ op = "bind" => Permits("rebind")
  /\ pipeline.handle \in open.pipelines /\ op = "reset" => Permits("rebuild")
  /\ (\A r \in Range(with) : OfKind(name, r)) \/ Permits("kind")
  /\ caller' = [op |-> op, name |-> name, with |-> with]
  /\ UNCHANGED <<shader, pipeline, alive, pool, set, layouts, recording, fault>>

(* Renderer::bind writes the set. *)
Bind ==
  /\ fault = "none" /\ caller.op = "bind"
  /\ DeviceIdle
  /\ set' = SetContent(caller.name, caller.with)
  /\ fault' = IF caller.name \notin DOMAIN set.known THEN fault
              ELSE IF set.handle = "failed" THEN "no set"
              ELSE IF open.set = "made" THEN "set written after it was recorded"
              ELSE IF \E r \in Range(caller.with) : ~OfKind(caller.name, r) THEN "written as another type"
              ELSE fault
  /\ caller' = Idle
  /\ UNCHANGED <<shader, pipeline, alive, pool, layouts, recording>>

(* Renderer::reset: the pipeline, not the pool or the shader. *)
Reset ==
  /\ fault = "none" /\ caller.op = "reset"
  /\ DeviceWaited
  /\ fault' = DestroyFault(pipeline.handle)
  /\ alive' = Destroyed(pipeline.handle)
  /\ pipeline' = [pipeline EXCEPT !.reset = TRUE]
  /\ caller' = Idle
  /\ UNCHANGED <<shader, pool, set, layouts, recording>>

-----------------------------------------------------------------------------
(* Frames. *)

\* Every descriptor of the layout was written.
AllBound ==
  \A n \in DOMAIN shader.descriptors :
    n \in DOMAIN set.content /\ Len(set.content[n]) >= shader.descriptors[n].count

AsLaidOut(content) ==
  \A n \in DOMAIN content : \A k \in DOMAIN content[n] : content[n][k].layout = layouts[content[n][k].is]

StillThere(content) == \A n \in DOMAIN content : \A k \in DOMAIN content[n] : ~content[n][k].moved

Moved(content, r) ==
  [n \in DOMAIN content |-> [k \in DOMAIN content[n] |->
     [content[n][k] EXCEPT !.moved = @ \/ content[n][k].is = r]]]

\* An image is transitioned by another frame that has finished.
Transition(r) ==
  /\ Ready
  /\ open = Blank /\ pending = <<>>
  /\ layouts' = [layouts EXCEPT ![r] = IF @ = "ShaderRead" THEN "General" ELSE "ShaderRead"]
  /\ set' = [set EXCEPT !.content = Moved(@, r)]
  /\ UNCHANGED <<shader, pipeline, alive, pool, caller, recording, fault>>

(* Chain::draw: the pipeline is bound, and the set if there is one.        *)
Draw(subpass) ==
  /\ Ready /\ Initialized /\ drawn < MaxFrames
  /\ pipeline.reset => Permits("again")
  /\ AllBound \/ Permits("unbound")
  /\ StillThere(set.content) \/ Permits("moved")
  /\ subpass # 0 => Permits("subpass")
  /\ open' = [pipelines |-> open.pipelines \union {pipeline.handle}, set |-> set.handle,
              content |-> set.content]
  /\ fault' = IF pipeline.handle \notin alive THEN "pipeline destroyed"
              ELSE IF subpass # 0 THEN "pipeline of another subpass"
              ELSE IF ~AllBound THEN "not all bound"
              ELSE IF ~AsLaidOut(set.content) THEN "image in another layout"
              ELSE fault
  /\ UNCHANGED <<shader, pipeline, alive, pool, set, layouts, caller, pending, drawn>>

\* Chain::submit.
Submit ==
  /\ Ready /\ open # Blank
  /\ pending' = Append(pending, open)
  /\ open' = Blank
  /\ drawn' = drawn + 1
  /\ UNCHANGED <<shader, pipeline, alive, pool, set, layouts, caller, fault>>

Complete ==
  /\ fault = "none" /\ pending # <<>>
  /\ pending' = Tail(pending)
  /\ UNCHANGED <<shader, pipeline, alive, pool, set, layouts, caller, open, drawn, fault>>

Names == DOMAIN shader.descriptors \union {"unknown"}

OfRenderer ==
  \/ \E file \in Files, pass \in BOOLEAN, colors \in Passes : Initialize(file, pass, colors)
  \/ BuildByHand
  \/ \E colors \in Passes, told \in BOOLEAN : InitializeByHand(colors, told)
  \/ AddViewport \/ \E on \in BOOLEAN : SetTestDepth(on)
  \/ \E name \in Names, r \in Resources : Call("bind", name, <<r>>)
  \/ \E name \in Names, r \in Images : Call("bind", name, <<r, r>>)
  \/ Call("reset", "none", <<>>)
  \/ Bind \/ Reset

OfFrames ==
  \/ \E r \in Images : Transition(r)
  \/ \E subpass \in {0, 1} : Draw(subpass)
  \/ Submit \/ Complete

Next == OfRenderer \/ OfFrames

Spec == Init /\ [][Next]_vars

-----------------------------------------------------------------------------
(* Properties. *)

(* Nothing the driver forbids is asked for: what the liberties and the     *)
(* files of Bad lead to.                                                   *)
NoFault == fault = "none"

(* The pipeline that a frame was recorded with is there until the device   *)
(* has finished the frame (RendererImpl::reset, which waits for the device *)
(* between the call and vkDestroyPipeline; addViewport does not wait).     *)
PipelinesLive == InUse \subseteq alive

(* A frame finds in the set what was bound when it was drawn, until the    *)
(* device has finished it (Renderer::bind, which waits for that).          *)
DrawnAsBound ==
  /\ open.set = "made" => open.content = set.content
  /\ \A k \in DOMAIN pending : pending[k].set = "made" => pending[k].content = set.content

(* The pool and the layout, made of one shader in two loops of different   *)
(* classes, agree on every uniform, and only an array can make the pool    *)
(* too small for the one set it is for (NyxShader::parse, DescriptorPool:: *)
(* initialize, which counts uniforms and not their sizes).                 *)
PoolAgrees ==
  set.handle # "none" =>
    /\ set.handle = "failed" => \E n \in DOMAIN shader.descriptors : shader.descriptors[n].count # 1
    /\ \A n \in DOMAIN shader.descriptors :
         /\ n \in DOMAIN pool.map
         /\ pool.map[n].binding = shader.descriptors[n].binding
         /\ pool.map[n].size = shader.descriptors[n].count
         /\ PoolType(pool.map[n].type) = shader.descriptors[n].type

(* A stage sees every uniform it declares (NyxShader::parse, which meets   *)
(* a uniform that two stages share once more for the second).              *)
StagesSee ==
  \A stage \in DOMAIN shader.file.map : \A k \in DOMAIN shader.file.map[stage] :
    LET u == shader.file.map[stage][k]
    IN  Initialized => stage \in shader.descriptors[u.name].stages

(* The pipeline in use is made of all the stages of the shader, each with  *)
(* its own code; no two attributes share a location; it writes every       *)
(* colour of the pass; and it tests depth as was last asked before it was  *)
(* made (NyxShader::initialize, PipelineData::createLayout and             *)
(* createPipeline, whose configuration outlives the pipeline).             *)
PipelineSound ==
  pipeline.handle \in alive =>
    LET made == pipeline.made
    IN  /\ made.stages = {<<s, s>> : s \in shader.spirv}
        /\ \A i, j \in DOMAIN made.locations : made.locations[i] = made.locations[j] => i = j
        /\ made.blend = [k \in 1 .. made.colors |-> TRUE]
        /\ made.depth = made.asked

(* What is drawn with is what the file says: its uniforms in the pool and  *)
(* the layout, and in the stages that declare them, and its stages,        *)
(* attributes and outputs in the pipeline, however often they are made     *)
(* again (NyxShader::parse, DescriptorPool::initialize, createPipeline).   *)
FileKept == PoolAgrees /\ StagesSee /\ PipelineSound

(* A file that shader, pool and pipeline read alike: no matrix among the   *)
(* inputs, at most one output, no tessellation, every uniform of a type    *)
(* that all convert alike, and uniforms of one name the same.              *)
Works(file) ==
  /\ file.opens /\ file.magic
  /\ file.outputs <= 1
  /\ \A k \in DOMAIN file.inputs : Rows(file.inputs[k]) = 1
  /\ file.shaders # <<>>
  /\ LET declared == UNION {Range(file.shaders[k].uniforms) : k \in DOMAIN file.shaders}
     IN  /\ \A u \in declared : u.type \in {"Ubo", "None", "Sampler"}
         /\ \A u, v \in declared : u.name = v.name => u = v
  /\ \A k \in DOMAIN file.shaders : file.shaders[k].stage \notin {"Tess_C", "Tess_E"}

=============================================================================
