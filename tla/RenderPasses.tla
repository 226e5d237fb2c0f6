---------------------------- MODULE RenderPasses ----------------------------
(***************************************************************************)
(* vkg::RenderPass: subpasses are added, then the pass is made with three  *)
(* framebuffers.  A subpass description points into the vectors of         *)
(* attachment references, which move when they grow.  Presenting is the    *)
(* subject of module Presentation.                                         *)
(***************************************************************************)
EXTENDS Naturals, Sequences, FiniteSets

CONSTANTS
  ColorCounts,    \* numbers of colour attachments a subpass is given
  ImageCounts,    \* numbers of images a driver makes a swapchain of
  MaxAttachments  \* bound: attachments of a pass

ASSUME PassAssumption ==
  /\ ColorCounts \subseteq Nat \ {0}
  /\ ImageCounts \subseteq Nat \ {0}
  /\ MaxAttachments \in Nat

VARIABLES
  attachments,   \* the kinds of the attachments
  color,         \* the vector color_references: size, capacity, moves
  depth,         \* the vector depth_references
  subpasses,     \* where each subpass points
  swapchain,     \* the images of its swapchain; 0 without one
  views,         \* what each framebuffer is made of; none before initialize
  current,       \* current_framebuffer
  wrong          \* what is not as it must be when the pass is made, or "none"

passVars == <<attachments, color, depth, subpasses, swapchain, views, current, wrong>>

NumBuffers == 3

NoVector == [size |-> 0, capacity |-> 0, moves |-> 0]

PassInit ==
  /\ attachments = <<>> /\ subpasses = <<>>
  /\ color = NoVector /\ depth = NoVector
  /\ swapchain = 0
  /\ views = <<>>
  /\ current = 0
  /\ wrong = "none"

Right == wrong = "none"
Made  == views # <<>>

(* push_back: a full vector moves to twice its capacity.                   *)
Pushed(v) ==
  [size |-> v.size + 1,
   capacity |-> IF v.size < v.capacity THEN v.capacity ELSE IF v.capacity = 0 THEN 1 ELSE 2 * v.capacity,
   moves |-> IF v.size < v.capacity THEN v.moves ELSE v.moves + 1]

Times(v, n) ==
  LET after[k \in 0 .. n] == IF k = 0 THEN v ELSE Pushed(after[k - 1])
  IN  after[n]

Several(kind, n) == [k \in 1 .. n |-> kind]

\* Mutant: the pointer is taken before the references are pushed.
PointedAtFirst(v, n) == [from |-> v.size, moves |-> v.moves]

(* Where a subpass finds its n references: the last ones pushed to v.      *)
Pointed(v, n) == [from |-> v.size, moves |-> Times(v, n).moves]

(* addSubpass: a depth attachment, when wanted, before the colour ones.    *)
(* The depth pointer is to the first of all depth references, if any.      *)
AddSubpass(colors, wanted) ==
  LET depths == IF wanted THEN Pushed(depth) ELSE depth
  IN  /\ Right /\ ~Made
      /\ Len(attachments) + colors + (IF wanted THEN 1 ELSE 0) <= MaxAttachments
      /\ attachments' = attachments \o (IF wanted THEN <<"depth">> ELSE <<>>) \o Several("color", colors)
      /\ color' = Times(color, colors) /\ depth' = depths
      /\ subpasses' = Append(subpasses,
           [colors |-> colors, color |-> Pointed(color, colors), wanted |-> wanted,
            own |-> depths.size, depth |-> [null |-> depths.size = 0, moves |-> depths.moves]])
      /\ UNCHANGED <<swapchain, views, current, wrong>>

(* What makeRenderPass finds at the end of the pointers.  Nothing is known *)
(* of a program that follows one to where a vector was.                    *)
Found(s) ==
  IF s.color.moves # color.moves \/ (~s.depth.null /\ s.depth.moves # depth.moves)
    THEN "dangling reference"
  ELSE IF s.depth.null = s.wanted \/ (s.wanted /\ s.own # 1) THEN "depth of another subpass"
  ELSE "none"

PassWrong ==
  LET bad == {k \in DOMAIN subpasses : Found(subpasses[k]) # "none"}
  IN  IF bad = {} THEN "none" ELSE Found(subpasses[CHOOSE k \in bad : \A j \in bad : k <= j])

\* Mutant: an index of images that comes up again brings the image back.
ByIndex(n, buffer, k) == buffer * (k - 1)

(* Images are numbered in the order they are initialised.  Those at an     *)
(* index of images that comes up again are initialised anew, and keep what *)
(* the framebuffer before was made of.                                     *)
NumberOf(n, buffer, k) == n * (buffer - 1) + k

FromSwapchain(count, k) == count > 0 /\ attachments[k] = "color"

(* Swapchain::image: the first image, when there are not so many.          *)
ImageOf(count, buffer) == IF buffer <= count THEN buffer ELSE 1

(* The view of attachment k of a framebuffer: of an image of the           *)
(* swapchain, or of one that is initialised for it.                        *)
ViewOf(count, buffer, k) ==
  IF FromSwapchain(count, k) THEN [swapchain |-> TRUE, number |-> ImageOf(count, buffer)]
  ELSE [swapchain |-> FALSE, number |-> NumberOf(Len(attachments), buffer, k)]

(* makeRenderPass and makeFramebuffers, with a swapchain of count images.  *)
Makes(count) ==
  /\ swapchain' = count
  /\ wrong' = PassWrong
  /\ views' = [b \in 1 .. NumBuffers |-> [k \in DOMAIN attachments |-> ViewOf(count, b, k)]]

(* initialize, for a device or for a window of its own. *)
InitializePass(count) ==
  /\ Right /\ ~Made /\ subpasses # <<>>
  /\ Makes(count)
  /\ UNCHANGED <<attachments, color, depth, subpasses, current>>

(* present, when the swapchain is out of date: everything is made again.   *)
Recreate(count) ==
  /\ Right /\ Made /\ swapchain > 0
  /\ current' = 0
  /\ Makes(count)
  /\ UNCHANGED <<attachments, color, depth, subpasses>>

(* advance *)
NextBuffer(c) == IF c + 1 >= Len(views) THEN 0 ELSE c + 1

(* reset leaves the number of the current framebuffer.                     *)
ResetPass ==
  /\ Right /\ Made
  /\ attachments' = <<>> /\ subpasses' = <<>>
  /\ color' = NoVector /\ depth' = NoVector
  /\ swapchain' = 0 /\ views' = <<>>
  /\ UNCHANGED <<current, wrong>>

PassNext ==
  \/ \E colors \in ColorCounts, wanted \in BOOLEAN : AddSubpass(colors, wanted)
  \/ \E count \in ImageCounts \cup {0} : InitializePass(count)
  \/ \E count \in ImageCounts : Recreate(count)
  \/ ResetPass

-----------------------------------------------------------------------------
(* Properties. *)

Vectors == [size : Nat, capacity : Nat, moves : Nat]

Descriptions ==
  [colors : Nat, color : [from : Nat, moves : Nat], wanted : BOOLEAN,
   own : Nat, depth : [null : BOOLEAN, moves : Nat]]

PassTypeOK ==
  /\ attachments \in Seq({"depth", "color"}) /\ Len(attachments) <= MaxAttachments
  /\ color \in Vectors /\ depth \in Vectors /\ subpasses \in Seq(Descriptions)
  /\ color.size <= color.capacity /\ depth.size <= depth.capacity
  /\ swapchain \in Nat /\ Len(views) \in {0, NumBuffers}
  /\ current \in 0 .. (NumBuffers - 1)

(* Fewer images than framebuffers: some share one.                        *)
Short == swapchain > 0 /\ swapchain < NumBuffers

(* What framebuffers b and c are both made of. *)
Common(b, c) ==
  {v \in {views[b][k] : k \in DOMAIN attachments} : \E k \in DOMAIN attachments : views[c][k] = v}

(* Framebuffers that are made of images of their own, or share no more     *)
(* than the images of a swapchain that has too few.                        *)
Apart(b, c) == \A v \in Common(b, c) : v.swapchain /\ Short

(* A push moves a vector of n references, or one after it up to m: it is   *)
(* full at each power of two.                                              *)
Outgrown(n, m) == \E i \in 0 .. m : n <= 2 ^ i /\ 2 ^ i < m

(* Passes that can be described: only the last subpass may have a depth    *)
(* attachment, and all colours after those of the first have to fit where  *)
(* these are.                                                              *)
Describable ==
  /\ \A k \in 1 .. Len(subpasses) - 1 : ~subpasses[k].wanted
  /\ ~Outgrown(subpasses[1].colors, color.size)

(* makeRenderPass finds the references of each subpass where addSubpass    *)
(* pointed, and the depth attachment of the subpass itself, for these      *)
(* passes and for no others (RenderPass::addSubpass).                      *)
SubpassesFound == Made => (Right <=> Describable)

-----------------------------------------------------------------------------
(* What holds of any pass. *)

(* A pass that is made has a subpass, and the views that were made for it. *)
ViewsMade ==
  /\ Made => subpasses # <<>>
  /\ Made => views = [b \in 1 .. NumBuffers |-> [k \in DOMAIN attachments |-> ViewOf(swapchain, b, k)]]

OwnViews == Made => \A b, c \in 1 .. NumBuffers : b # c => Apart(b, c)

=============================================================================
