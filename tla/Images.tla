------------------------------- MODULE Images -------------------------------
(***************************************************************************)
(* vkg::Image, and what vkg::Chain does with images.  An Image is a value  *)
(* that holds the handles of an image on the device and tracks the layout  *)
(* it is in.  Image::transition and Image::copy submit what they do at     *)
(* once; a chain records, and what it recorded is executed when it is      *)
(* submitted, though the layout is tracked when it is recorded.            *)
(*                                                                         *)
(* One command buffer of the chain is modelled (ChainMode::First).         *)
(***************************************************************************)
EXTENDS Naturals, Sequences, FiniteSets

CONSTANTS
  Objects,        \* Image objects of the program
  Prints,         \* what an image may show
  LayerCounts,
  Layouts,        \* layouts asked for
  ImageLiberties,
  MaxTextures,    \* bound: images made on the device
  MaxOdd,         \* bound: objects for an image out of the ordinary
  MaxRecorded     \* bound: commands recorded and not submitted

(* "copies": two objects go on using one image.                            *)
(* "twice": what was reset is used, or reset again.                        *)
(* "again": an object is initialised that was not reset.                   *)
(* "early": an image is used at once that a chain has recorded commands    *)
(*   for.                                                                  *)
(* "unsynced": an image is reset that the device may be using.             *)
(* "blank": an image is resized that is in no layout.                      *)
(* "self": an image is copied to itself.                                   *)
(* "layout": an image is read in a layout that is not for that.            *)
(* "depth": a depth image is transitioned.                                 *)
(* "swapchain": an image of a swapchain is used or reset.                  *)
(* "small": memory of the caller's is too small for an object that had an  *)
(*   image, or has one that is resized.                                    *)
ASSUME ImageAssumption ==
  /\ Objects # {} /\ 0 \notin Prints
  /\ LayerCounts \subseteq Nat \ {0}
  /\ Layouts \subseteq {"General", "ColorAttachment", "ShaderRead", "TransferSrc", "TransferDst",
                        "PresentSrc", "DepthRead", "DepthStencil"}
  /\ ImageLiberties \subseteq
       {"copies", "twice", "again", "early", "unsynced", "blank", "self", "layout",
        "depth", "swapchain", "small"}
  /\ MaxTextures \in Nat /\ MaxOdd \in Nat /\ MaxRecorded \in Nat

VARIABLES
  image,     \* the objects: ImageData of each
  texture,   \* images on the device
  memory,    \* their memory: whether it is there
  views,     \* images of which view and sampler are there
  recorded,  \* commands recorded by the chain
  fault      \* first thing no device may be asked, or "none"

imageVars == <<image, texture, memory, views, recorded, fault>>

(* ImageData as the constructor leaves it.  "moved" is no member: the      *)
(* program uses another object in the place of this one.                   *)
NewImage ==
  [tex |-> 0, mem |-> 0, view |-> 0, layout |-> "Undefined", old |-> "Undefined",
   layers |-> 1, depth |-> FALSE,
   preallocated |-> FALSE, moved |-> FALSE]

ImageInit ==
  /\ image = [o \in Objects |-> NewImage]
  /\ texture = <<>> /\ memory = <<>> /\ views = {} /\ recorded = <<>>
  /\ fault = "none"

Sound == fault = "none"
May(liberty) == liberty \in ImageLiberties

-----------------------------------------------------------------------------
(* The device. *)

(* State as the commands of a queue change it. *)
Now == [texture |-> texture, fault |-> fault]

Faulty(s, what) == [s EXCEPT !.fault = IF @ = "none" THEN what ELSE @]

Shows(s, t, print) == [s EXCEPT !.texture[t].shows = print, !.texture[t].pending = TRUE]

(* A barrier: from no layout, what the image shows is gone. *)
Barrier(s, c) ==
  LET t == s.texture[c.tex]
  IN  IF c.to = "Undefined" THEN Faulty(s, "no layout")
      ELSE IF t.depth THEN Faulty(s, "depth image")
      ELSE IF ~t.bound THEN Faulty(s, "no memory")
      ELSE IF c.from # "Undefined" /\ c.from # t.layout THEN Faulty(s, "wrong layout")
      ELSE [s EXCEPT !.texture[c.tex] =
              [t EXCEPT !.layout = c.to, !.pending = TRUE,
                        !.shows = IF c.from = "Undefined" THEN 0 ELSE t.shows]]

CanHold(t, layout) == t.layout \in {layout, "General"}

(* A copy into an image, of a picture. *)
CopyIn(s, c) ==
  IF ~CanHold(s.texture[c.tex], "TransferDst") THEN Faulty(s, "not to be written")
  ELSE Shows(s, c.tex, c.print)

(* A copy from an image, to another or, with dst 0, to a buffer. *)
CopyOut(s, c) ==
  IF ~CanHold(s.texture[c.tex], "TransferSrc") THEN Faulty(s, "not to be read")
  ELSE LET read == [s EXCEPT !.texture[c.tex].pending = TRUE]
       IN  IF c.dst = 0 THEN read
           ELSE CopyIn(read, [tex |-> c.dst, print |-> s.texture[c.tex].shows])

Execute(s, c) ==
  IF s.fault # "none" THEN s
  ELSE IF ~s.texture[c.tex].live THEN Faulty(s, "image destroyed")
  ELSE CASE c.op = "barrier" -> Barrier(s, c)
         [] c.op = "in"  -> CopyIn(s, c)
         [] c.op = "out" -> CopyOut(s, c)

Submitted(s, commands) ==
  LET done[n \in 0 .. Len(commands)] ==
        IF n = 0 THEN s ELSE Execute(done[n - 1], commands[n])
  IN  done[Len(commands)]

(* State once what is recorded has been executed. *)
Ahead == Submitted(Now, recorded)

-----------------------------------------------------------------------------
(* Who may use an image. *)

Live(t) == t # 0 /\ texture[t].live
IsRecorded(t) == \E k \in DOMAIN recorded : t \in {recorded[k].tex, recorded[k].dst}

Usable(o) ==
  /\ image[o].tex # 0 /\ texture[image[o].tex].bound
  /\ ~image[o].moved \/ May("copies")
  /\ Live(image[o].tex) \/ May("twice")
  /\ ~texture[image[o].tex].swapchain \/ May("swapchain")

UsableAtOnce(o) == Usable(o) /\ (~IsRecorded(image[o].tex) \/ May("early"))

MayTransition(o) == ~image[o].depth \/ May("depth")

Command(op, t, from, to, print, dst) ==
  [op |-> op, tex |-> t, from |-> from, to |-> to, print |-> print, dst |-> dst]

BarrierOf(i, from, to) == Command("barrier", i.tex, from, to, 0, 0)
InOf(i, print)         == Command("in", i.tex, "", "", print, 0)
OutOf(i)               == Command("out", i.tex, "", "", 0, 0)
AcrossOf(i, j)         == Command("out", i.tex, "", "", 0, j.tex)

(* A layout of the driver as a layout of the library: one is not known.    *)
Convert(layout) == IF layout = "DepthStencil" THEN "Undefined" ELSE layout

-----------------------------------------------------------------------------
(* Image: steps that other operations are made of.  They change the state  *)
(* [image, texture, fault].                                                *)

Here == [image |-> image, texture |-> texture, fault |-> fault]

Run(s, command) ==
  LET done == Submitted([texture |-> s.texture, fault |-> s.fault], <<command>>)
  IN  [s EXCEPT !.texture = done.texture, !.fault = done.fault]

\* Mutant: the layout is not tracked.
Untracked(s, o, layout) == Run(s, BarrierOf(s.image[o], s.image[o].layout, layout))

(* Image::transition *)
Transitioned(s, o, layout) ==
  LET i == s.image[o]
  IN  [Run(s, BarrierOf(i, i.layout, layout)) EXCEPT !.image[o].layout = layout, !.image[o].old = i.layout]

\* Mutant: the image is brought back to the layout it is in.
StaysAsIs(s, o) ==
  IF s.image[o].old = "Undefined" THEN s
  ELSE [s EXCEPT !.image[o].layout = s.image[o].old]

(* Image::revertLayout *)
Reverted(s, o) ==
  IF s.image[o].old = "Undefined" THEN s
  ELSE Transitioned(s, o, Convert(s.image[o].old))

Becomes(s) ==
  /\ image' = s.image /\ texture' = s.texture /\ fault' = s.fault

Transition(o, layout) ==
  /\ Sound /\ UsableAtOnce(o) /\ MayTransition(o)
  /\ Becomes(Transitioned(Here, o, layout))
  /\ UNCHANGED <<memory, views, recorded>>

RevertLayout(o) ==
  /\ Sound /\ UsableAtOnce(o) /\ MayTransition(o)
  /\ Becomes(Reverted(Here, o))
  /\ UNCHANGED <<memory, views, recorded>>

(* Image::copy from an image: both are brought to the layouts of a copy,   *)
(* and back, the source first.                                             *)
Copied(o, src) ==
  LET ready == Transitioned(Transitioned(Here, o, "TransferDst"), src, "TransferSrc")
      done  == Run(ready, AcrossOf(ready.image[src], ready.image[o]))
  IN  Reverted(Reverted(done, src), o)

CopyImage(o, src) ==
  /\ Sound
  /\ UsableAtOnce(o) /\ MayTransition(o)
  /\ UsableAtOnce(src) /\ MayTransition(src)
  /\ o # src \/ May("self")
  /\ texture[image[src].tex].shows # 0
  /\ Becomes(Copied(o, src))
  /\ UNCHANGED <<memory, views, recorded>>

(* Image::copy from a buffer. *)
CopyBuffer(o, print) ==
  LET ready == Transitioned(Here, o, "TransferDst")
  IN  /\ Sound
      /\ UsableAtOnce(o) /\ MayTransition(o)
      /\ Becomes(Reverted(Run(ready, InOf(ready.image[o], print)), o))
      /\ UNCHANGED <<memory, views, recorded>>

-----------------------------------------------------------------------------
(* Making images and giving them back. *)

Texture(depth, swapchain, bound) ==
  [live |-> TRUE, bound |-> bound, swapchain |-> swapchain, layout |-> "Undefined", shows |-> 0,
   pending |-> FALSE, depth |-> depth]

(* initialize: the image on the device, memory of its own unless that is   *)
(* the caller's; with enough of it, view and sampler: without, the object  *)
(* keeps the handles it had.  The layout stays the one tracked.            *)
Initialized(i, layers, depth, enough) ==
  LET t == Len(texture) + 1
  IN  [texture |-> Append(texture, Texture(depth, FALSE, enough)),
       memory  |-> IF i.preallocated THEN memory ELSE Append(memory, TRUE),
       views   |-> IF enough THEN views \union {t} ELSE views,
       image   |-> [i EXCEPT !.tex = t, !.view = IF enough THEN t ELSE @, !.layers = layers,
                             !.mem = IF i.preallocated THEN 0 ELSE Len(memory) + 1,
                             !.depth = depth]]

Odd(i) == i.preallocated \/ i.depth

MayBe(o, odd) == odd => Cardinality({q \in Objects \ {o} : Odd(image[q])}) < MaxOdd

MayMake(o) ==
  /\ Sound /\ Len(texture) < MaxTextures
  /\ ~image[o].moved
  /\ Live(image[o].tex) => May("again")

Makes(o, made) ==
  /\ texture' = made.texture /\ memory' = made.memory /\ views' = made.views
  /\ image' = [image EXCEPT ![o] = made.image]
  /\ UNCHANGED <<recorded, fault>>

Initialize(o, layers, depth) ==
  /\ MayMake(o) /\ MayBe(o, depth)
  /\ ~image[o].preallocated
  /\ Makes(o, Initialized(image[o], layers, depth, TRUE))

(* In memory of the caller, which may be too small; the flag that says so  *)
(* is kept for good.                                                       *)
InitializeIn(o, layers, enough) ==
  /\ MayMake(o) /\ MayBe(o, TRUE)
  /\ enough \/ image[o].view = 0 \/ May("small")
  /\ Makes(o, Initialized([image[o] EXCEPT !.preallocated = TRUE], layers, FALSE, enough))

(* An image of a swapchain, which is in no layout yet. *)
InitializeOf(o) ==
  /\ MayMake(o) /\ MayBe(o, TRUE)
  /\ texture' = Append(texture, Texture(FALSE, TRUE, TRUE))
  /\ views' = views \union {Len(texture) + 1}
  /\ image' = [image EXCEPT ![o] = [@ EXCEPT !.tex = Len(texture) + 1, !.view = Len(texture) + 1,
                                            !.layers = 1, !.layout = "PresentSrc",
                                            !.preallocated = TRUE]]
  /\ UNCHANGED <<memory, recorded, fault>>

(* What was on the device and is no more. *)
Gone(t) == [t EXCEPT !.live = FALSE, !.layout = "Undefined", !.shows = 0, !.pending = FALSE]

(* What reset does to the state [image, texture, memory, views, fault]:    *)
(* sampler and view go first, if there is an image; the handles stay, and  *)
(* the layout is forgotten.                                                *)
Destroyed(s, o) ==
  LET i   == s.image[o]
      bad == IF i.tex = 0 THEN "none"
             ELSE IF i.view \notin s.views \union {0} THEN "view destroyed twice"
             ELSE IF ~s.texture[i.tex].live THEN "destroyed twice"
             ELSE IF s.texture[i.tex].swapchain THEN "image of the swapchain"
             ELSE IF s.texture[i.tex].pending THEN "in use"
             ELSE IF ~i.preallocated /\ ~s.memory[i.mem] THEN "memory given back twice"
             ELSE "none"
  IN  [image   |-> [s.image EXCEPT ![o].layout = "Undefined"],
       texture |-> IF i.tex = 0 THEN s.texture ELSE [s.texture EXCEPT ![i.tex] = Gone(@)],
       memory  |-> IF i.preallocated \/ i.mem = 0 THEN s.memory
                   ELSE [s.memory EXCEPT ![i.mem] = FALSE],
       views   |-> IF i.tex = 0 THEN s.views ELSE s.views \ {i.view},
       fault   |-> IF bad = "none" THEN s.fault ELSE bad]

Everything ==
  [image |-> image, texture |-> texture, memory |-> memory, views |-> views, fault |-> fault]

MayReset(o) ==
  /\ ~image[o].moved \/ May("copies")
  /\ image[o].tex # 0 => /\ Live(image[o].tex) \/ May("twice")
                         /\ ~texture[image[o].tex].pending \/ May("unsynced")
                         /\ ~IsRecorded(image[o].tex) \/ May("early")
                         /\ ~texture[image[o].tex].swapchain \/ May("swapchain")

Reset(o) ==
  LET s == Destroyed(Everything, o)
  IN  /\ Sound /\ image[o].tex # 0
      /\ MayReset(o)
      /\ image' = s.image /\ texture' = s.texture /\ fault' = s.fault
      /\ memory' = s.memory /\ views' = s.views
      /\ UNCHANGED recorded

\* Mutant: what is there is not given back first.
NotReset(s, o) == s

(* The first half of resize. *)
ResetFirst(s, o) == Destroyed(s, o)

(* resize, when both width and height differ from those of the image: it   *)
(* is made anew, with one layer whatever there were, and brought to the    *)
(* layout it was in, whether or not memory of the caller's is enough.      *)
(* Otherwise nothing is done.                                              *)
Resize(o, enough) ==
  LET s    == ResetFirst(Everything, o)
      i    == s.image[o]
      t    == Len(texture) + 1
      n    == Len(memory) + 1
      made == [i EXCEPT !.tex = t, !.view = IF enough THEN t ELSE @, !.layers = 1,
                        !.mem = IF i.preallocated THEN @ ELSE n]
  IN  /\ Sound /\ Len(texture) < MaxTextures
      /\ Usable(o) /\ MayReset(o) /\ MayTransition(o)
      /\ image[o].layout # "Undefined" \/ May("blank")
      /\ enough \/ (i.preallocated /\ May("small"))
      /\ memory' = IF i.preallocated THEN s.memory ELSE Append(s.memory, TRUE)
      /\ views' = IF enough THEN s.views \union {t} ELSE s.views
      /\ Becomes(Transitioned([image |-> [s.image EXCEPT ![o] = made],
                               texture |-> Append(s.texture, Texture(i.depth, FALSE, enough)),
                               fault |-> s.fault], o, Convert(image[o].layout)))
      /\ UNCHANGED recorded

(* operator= ; the program then uses this object.                          *)
AssignImage(o, from) ==
  /\ Sound /\ o # from
  /\ Usable(from) /\ ~Live(image[o].tex)
  /\ image' = [image EXCEPT ![o] = image[from], ![from].moved = TRUE]
  /\ UNCHANGED <<texture, memory, views, recorded, fault>>

-----------------------------------------------------------------------------
(* Chain. *)

Room(n) == Len(recorded) + n <= MaxRecorded

\* Mutant: the barrier is from the layout of the last one, not the object's.
FromOld(i, layout) == <<BarrierOf(i, Convert(i.old), layout)>>

(* Chain::transition: nothing is recorded for no layout. *)
Barriers(i, layout) ==
  IF layout = "Undefined" THEN <<>> ELSE <<BarrierOf(i, Convert(i.layout), layout)>>

Tracked(i, layout) == IF layout = "Undefined" THEN i ELSE [i EXCEPT !.layout = layout]

ChainTransition(o, layout) ==
  /\ Sound /\ Usable(o) /\ MayTransition(o)
  /\ Room(1)
  /\ recorded' = recorded \o Barriers(image[o], layout)
  /\ image' = [image EXCEPT ![o] = Tracked(@, layout)]
  /\ UNCHANGED <<texture, memory, views, fault>>

(* copy from a buffer: to the layout of a copy and back to what it was, if *)
(* it was in any.                                                          *)
ChainCopyIn(o, print) ==
  LET i  == image[o]
      to == Tracked(i, "TransferDst")
  IN  /\ Sound /\ Usable(o) /\ MayTransition(o)
      /\ Room(3)
      /\ recorded' = recorded \o Barriers(i, "TransferDst") \o <<InOf(i, print)>>
                              \o Barriers(to, Convert(i.layout))
      /\ image' = [image EXCEPT ![o] = Tracked(to, Convert(i.layout))]
      /\ UNCHANGED <<texture, memory, views, fault>>

(* copy to a buffer: the image is taken to be in the layout for that.      *)
ChainCopyOut(o) ==
  /\ Sound /\ Usable(o) /\ MayTransition(o)
  /\ Room(1)
  /\ image[o].layout = "TransferSrc" \/ May("layout")
  /\ recorded' = Append(recorded, OutOf(image[o]))
  /\ UNCHANGED <<image, texture, memory, views, fault>>

(* copy of an image to another: both in the layouts the program chose.     *)
ChainCopyAcross(src, o) ==
  /\ Sound /\ o # src
  /\ Usable(o) /\ MayTransition(o)
  /\ Usable(src) /\ MayTransition(src)
  /\ Room(1)
  /\ (image[src].layout = "TransferSrc" /\ image[o].layout = "TransferDst") \/ May("layout")
  /\ Ahead.texture[image[src].tex].shows # 0
  /\ recorded' = Append(recorded, AcrossOf(image[src], image[o]))
  /\ UNCHANGED <<image, texture, memory, views, fault>>

ChainSubmit ==
  /\ Sound /\ recorded # <<>>
  /\ LET then == Ahead
     IN  texture' = then.texture /\ fault' = then.fault
  /\ recorded' = <<>>
  /\ UNCHANGED <<image, memory, views>>

(* A wait for the device. *)
Synchronize ==
  /\ Sound
  /\ texture' = [k \in DOMAIN texture |-> [texture[k] EXCEPT !.pending = FALSE]]
  /\ UNCHANGED <<image, memory, views, recorded, fault>>

-----------------------------------------------------------------------------
Makings(o) ==
  \/ \E layers \in LayerCounts, depth \in BOOLEAN : Initialize(o, layers, depth)
  \/ \E layers \in LayerCounts, enough \in BOOLEAN : InitializeIn(o, layers, enough)
  \/ InitializeOf(o)
  \/ \E enough \in BOOLEAN : Resize(o, enough)

OnImage(o) ==
  \/ Makings(o) \/ Reset(o)
  \/ \E from \in Objects : AssignImage(o, from) \/ CopyImage(o, from)
  \/ \E layout \in Layouts : Transition(o, layout)
  \/ RevertLayout(o)
  \/ \E print \in Prints : CopyBuffer(o, print)

OnChain ==
  \/ \E o \in Objects :
       \/ \E layout \in Layouts : ChainTransition(o, layout)
       \/ \E print \in Prints : ChainCopyIn(o, print)
       \/ ChainCopyOut(o)
       \/ \E src \in Objects : ChainCopyAcross(src, o)
  \/ ChainSubmit

ImageNext == (\E o \in Objects : OnImage(o)) \/ OnChain \/ Synchronize

ImageSpec == ImageInit /\ [][ImageNext]_imageVars

-----------------------------------------------------------------------------
(* Properties. *)

AllLayouts == Layouts \union {"Undefined", "PresentSrc", "TransferSrc", "TransferDst"}

Data ==
  [tex : Nat, mem : Nat, view : Nat, layout : AllLayouts, old : AllLayouts, layers : LayerCounts \union {1},
   depth : BOOLEAN, preallocated : BOOLEAN, moved : BOOLEAN]

Textures ==
  [live : BOOLEAN, bound : BOOLEAN, swapchain : BOOLEAN, layout : AllLayouts,
   shows : Prints \union {0}, pending : BOOLEAN, depth : BOOLEAN]

Commands ==
  [op : {"barrier", "in", "out"}, tex : Nat, from : AllLayouts \union {""},
   to : AllLayouts \union {""}, print : Prints \union {0}, dst : Nat]

ImageTypeOK ==
  /\ image \in [Objects -> Data]
  /\ \A o \in Objects : image[o].tex <= Len(texture) /\ image[o].mem <= Len(memory)
  /\ texture \in Seq(Textures) /\ memory \in Seq(BOOLEAN) /\ views \subseteq Nat
  /\ recorded \in Seq(Commands) /\ Len(recorded) <= MaxRecorded

(* The program uses the object, and its image is there. *)
InUse(o) == ~image[o].moved /\ Live(image[o].tex)

(* No device is asked for what it must not be: a barrier or a copy names   *)
(* the layout the image is in when it is executed, to an image that is     *)
(* there; no image, view or memory is destroyed twice, while it is in use, *)
(* or when it is another's (Image::transition, copy, reset;                *)
(* Chain::transition, copy).                                               *)
NoFault == fault = "none"

(* Types, and nothing the driver forbids. *)
Safe == ImageTypeOK /\ NoFault

(* The layout an object tracks is the one its image is in once what is     *)
(* recorded has been executed (Image::transition and Chain::transition).   *)
LayoutsAgree ==
  Sound =>
    LET then == Ahead
    IN  \A o \in Objects :
          InUse(o) /\ ~texture[image[o].tex].swapchain
            => then.texture[image[o].tex].layout = image[o].layout

(* An image that is there is held by one object the program uses, which    *)
(* can give it back with all that was made with it: its view, if there was *)
(* memory for one, and its memory, if that is its own.  No view and no     *)
(* memory is there of none (Image::initialize, resize, reset, operator=).  *)
Held ==
  /\ \A t \in DOMAIN texture : texture[t].live
       => Cardinality({o \in Objects : image[o].tex = t /\ ~image[o].moved}) = 1
  /\ \A o \in Objects : InUse(o) =>
       /\ IF texture[image[o].tex].bound THEN image[o].view = image[o].tex /\ image[o].view \in views
          ELSE image[o].view = 0
       /\ image[o].preallocated \/ memory[image[o].mem]
  /\ \A v \in views : \E o \in Objects : image[o].view = v /\ InUse(o)
  /\ \A m \in DOMAIN memory : memory[m] => \E o \in Objects : image[o].mem = m /\ InUse(o)

(* What the objects show, once what is recorded has been executed, and the *)
(* image each of them has.                                                 *)
Shown ==
  LET then == Ahead
  IN  [o \in Objects |-> IF InUse(o) THEN then.texture[image[o].tex].shows ELSE 0]

Holds == [o \in Objects |-> IF InUse(o) THEN image[o].tex ELSE 0]

Picture == INSTANCE Pictures WITH shown <- Shown, holds <- Holds, Nothing <- 0, None <- 0

(* Images show what was put in them last: as long as an object keeps its   *)
(* image no transition, no return to an earlier layout and no submission   *)
(* loses the picture or changes that of another; it goes with the image    *)
(* only (Image::transition, revertLayout, copy, resize, reset;             *)
(* Chain::transition, copy).                                               *)
IsPictures == Picture!Spec

-----------------------------------------------------------------------------
(* What these rest on, for a disciplined program. *)

(* An image that is there has one object, and its memory is of that.       *)
HeldOnce ==
  /\ \A o, q \in Objects : InUse(o) /\ ~image[q].moved /\ image[o].tex = image[q].tex => o = q
  /\ \A t \in DOMAIN texture : texture[t].live => \E o \in Objects : InUse(o) /\ image[o].tex = t

OwnsMemory(o) == InUse(o) /\ ~image[o].preallocated

MemoryOnce ==
  /\ \A o \in Objects : OwnsMemory(o) => image[o].mem # 0 /\ memory[image[o].mem]
  /\ \A o, q \in Objects : OwnsMemory(o) /\ OwnsMemory(q) /\ image[o].mem = image[q].mem => o = q
  /\ \A m \in DOMAIN memory : memory[m] => \E o \in Objects : OwnsMemory(o) /\ image[o].mem = m

(* An image with memory has its view, and no other view is there. *)
ViewsOnce ==
  /\ \A o \in Objects : InUse(o) =>
       image[o].view = IF texture[image[o].tex].bound THEN image[o].tex ELSE 0
  /\ views = {t \in DOMAIN texture : texture[t].live /\ texture[t].bound}

(* What is recorded is for images that are there, and a copy for two.      *)
WellRecorded ==
  \A k \in DOMAIN recorded : LET c == recorded[k] IN
    /\ Live(c.tex) /\ c.tex <= Len(texture) /\ (c.op = "barrier" => c.to # "")
    /\ c.dst # 0 => Live(c.dst) /\ c.dst <= Len(texture) /\ c.dst # c.tex /\ c.op = "out"

(* The layout of an object in use is the one its image will be in, and an  *)
(* object that is not in use tracks none.                                  *)
InLayout(o) ==
  LET i == image[o]
  IN  /\ InUse(o) => (texture[i.tex].depth => i.depth)
      /\ InUse(o) /\ ~texture[i.tex].swapchain => Ahead.texture[i.tex].layout = i.layout
      /\ ~i.moved /\ ~Live(i.tex) => i.layout = "Undefined"

(* What is in no layout shows nothing. *)
Blank == \A t \in DOMAIN texture : Ahead.texture[t].layout = "Undefined" => Ahead.texture[t].shows = 0

ImageInv ==
  /\ HeldOnce /\ MemoryOnce /\ ViewsOnce /\ WellRecorded
  /\ \A o \in Objects : InLayout(o)
  /\ Blank /\ Ahead.fault = "none"

=============================================================================
