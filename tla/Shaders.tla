------------------------------ MODULE Shaders ------------------------------
(***************************************************************************)
(* What a .nyx file says of a shader, and what vkg::NyxShader makes of it: *)
(* nyx::NyxFile::load, NyxShader::initialize and the shader built by hand. *)
(* Names, types and sizes are values of small sets; SPIR-V is the stage it *)
(* was compiled for.                                                       *)
(***************************************************************************)
EXTENDS Naturals, Sequences, FiniteSets, SequencesExt

\* enum ShaderStage, in its order: a map of shaders is walked in it.
StageOrder == <<"Vertex", "Fragment", "Geometry", "Tess_C", "Tess_E", "Compute">>

Stages == Range(StageOrder)

(* What a file holds: the inputs are types, at their own locations.        *)
UniformsOf == [name : STRING, type : STRING, binding : Nat, size : Nat]
ShadersOf == [stage : Stages, uniforms : Seq(UniformsOf)]
FilesOf == [opens : BOOLEAN, magic : BOOLEAN, inputs : Seq(STRING), outputs : Nat, shaders : Seq(ShadersOf)]

Nothing == [n \in {} |-> n]

\* A NyxFileData that has loaded nothing.
EmptyFile == [inputs |-> <<>>, outputs |-> 0, map |-> Nothing]

(* map.insert keeps the first shader of a stage. *)
Inserted(shaders) ==
  [stage \in {shaders[k].stage : k \in DOMAIN shaders} |->
     LET of == {k \in DOMAIN shaders : shaders[k].stage = stage}
     IN  shaders[CHOOSE k \in of : \A j \in of : k <= j].uniforms]

(* NyxFile::load: a path that does not open leaves all as it is.  The map  *)
(* is cleared; inputs and outputs are not, and what has another magic      *)
(* number is read no further.                                              *)
Load(data, file) ==
  IF ~file.opens THEN data
  ELSE IF ~file.magic THEN [data EXCEPT !.map = Nothing]
  ELSE [inputs |-> data.inputs \o file.inputs, outputs |-> data.outputs + file.outputs,
        map |-> Inserted(file.shaders)]

-----------------------------------------------------------------------------
(* The inputs of the vertex stage. *)

Rows(type) == CASE type = "mat4" -> 4 [] type = "mat3" -> 3 [] type = "mat2" -> 2 [] OTHER -> 1

\* Bytes of a row: two of a mat2 are counted as three.
RowBytes(type) ==
  CASE type \in {"mat4", "vec4"} -> 16
    [] type \in {"mat3", "mat2", "vec3"} -> 12
    [] type = "vec2" -> 8
    [] OTHER -> 4

\* The attributes of an input: a row of a matrix is at the matrix' location.
Attributes(inputs, k) == [n \in 1 .. Rows(inputs[k]) |-> k - 1]

Locations(inputs) == FlattenSeq([k \in DOMAIN inputs |-> Attributes(inputs, k)])

Stride(inputs) ==
  LET sum[k \in 0 .. Len(inputs)] ==
        IF k = 0 THEN 0 ELSE sum[k - 1] + Rows(inputs[k]) * RowBytes(inputs[k])
  IN  sum[Len(inputs)]

-----------------------------------------------------------------------------
(* The uniforms. *)

\* operator<<: a type it does not know leaves what was there before.
LayoutType(type, before) ==
  CASE type \in {"Ubo", "None"} -> "UniformBuffer"
    [] type = "Sampler" -> "CombinedImageSampler"
    [] type = "Ssbo" -> "StorageBuffer"
    [] OTHER -> before

\* The uniforms of a file in the order parse meets them, with their stages.
Declared(map) ==
  FlattenSeq([k \in DOMAIN StageOrder |->
    IF StageOrder[k] \notin DOMAIN map THEN <<>>
    ELSE [n \in DOMAIN map[StageOrder[k]] |-> [stage |-> StageOrder[k], is |-> map[StageOrder[k]][n]]]])

\* Mutant: a name met again is left as it was made.
FirstStageOnly(known, stage) == known

\* A name that another stage has too.
SeenAgain(known, stage) == [known EXCEPT !.stages = @ \union {stage}]

(* One binding, the last, is filled in over and over: a new name's stages  *)
(* are those of the new names before it as well.                           *)
Added(before, u) ==
  LET new == [binding |-> u.is.binding, count |-> u.is.size,
              stages |-> before.last.stages \union {u.stage},
              type |-> LayoutType(u.is.type, before.last.type)]
  IN  IF u.is.name \in DOMAIN before.made
        THEN [before EXCEPT !.made[u.is.name] = SeenAgain(@, u.stage)]
        ELSE [made |-> [n \in DOMAIN before.made \union {u.is.name} |->
                          IF n = u.is.name THEN new ELSE before.made[n]],
              last |-> new]

Unparsed ==
  [made |-> Nothing, last |-> [binding |-> 0, count |-> 0, stages |-> {}, type |-> "Sampler"]]

Reflect(map) ==
  LET uniforms == Declared(map)
      parsed[k \in 0 .. Len(uniforms)] ==
        IF k = 0 THEN Unparsed ELSE Added(parsed[k - 1], uniforms[k])
  IN  parsed[Len(uniforms)].made

-----------------------------------------------------------------------------
(* The stages. *)

\* nyxStageFromVulkan knows no tessellation.
StageBack(stage) == IF stage \in {"Tess_C", "Tess_E"} THEN "Vertex" ELSE stage

\* Vulkan's order of the stages, in which modules are made.
VulkanOrder == <<"Vertex", "Tess_C", "Tess_E", "Geometry", "Fragment", "Compute">>

(* makeShaderModules: which stage's code the module of a stage is.  The    *)
(* last one made for a stage stays.                                        *)
Modules(spirv) ==
  [stage \in {StageBack(s) : s \in spirv} |->
     LET of == {k \in DOMAIN VulkanOrder : VulkanOrder[k] \in spirv /\ StageBack(VulkanOrder[k]) = stage}
     IN  VulkanOrder[CHOOSE k \in of : \A j \in of : j <= k]]

-----------------------------------------------------------------------------
(* NyxShaderData. *)
NoShader ==
  [file |-> EmptyFile, locations |-> <<>>, strides |-> <<>>, descriptors |-> Nothing,
   spirv |-> {}, modules |-> Nothing, layout |-> FALSE]

\* parse: attributes, bindings and code are added, descriptors replaced.
Parse(shader, file) ==
  [shader EXCEPT !.file = file, !.locations = @ \o Locations(file.inputs),
                 !.strides = Append(@, Stride(file.inputs)),
                 !.descriptors = Reflect(file.map),
                 !.spirv = @ \union DOMAIN file.map]

\* makeDescriptorLayout, makeShaderModules, makePipelineShaderInfos.
MakeShader(shader) == [shader EXCEPT !.layout = TRUE, !.modules = Modules(shader.spirv)]

\* NyxShader::initialize with a path or with bytes.
InitializeShader(shader, file) == MakeShader(Parse(shader, Load(shader.file, file)))

(* The shader built by hand: addAttribute with addInputBinding,            *)
(* addShaderModule, and addDescriptor, before initialize( device ).        *)
AddAttribute(shader, location, stride) ==
  [shader EXCEPT !.locations = Append(@, location), !.strides = Append(@, stride)]

AddShaderModule(shader, stage) == [shader EXCEPT !.spirv = @ \union {stage}]

\* convert( ArrayFlags ) and convert( ImageUsage ).
HandType(kind) ==
  CASE kind = "StorageBuffer" -> "StorageBuffer"
    [] kind = "UniformBuffer" -> "UniformBuffer"
    [] kind = "Sampled" -> "CombinedImageSampler"
    [] kind = "Input" -> "StorageImage"
    [] OTHER -> "Sampler"

AddDescriptor(shader, name, kind, stage) ==
  [shader EXCEPT !.descriptors = [n \in DOMAIN @ \union {name} |->
     IF n = name THEN [binding |-> Cardinality(DOMAIN @), count |-> 1, stages |-> {stage},
                       type |-> HandType(kind)]
     ELSE @[n]]]

=============================================================================
