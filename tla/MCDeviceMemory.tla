--------------------------- MODULE MCDeviceMemory ---------------------------
(* Two types of memory, the first of them for the device alone; buffers    *)
(* take up a multiple of two units; unsigned has three bits.               *)
EXTENDS DeviceMemory, TLC

TwoTypes == <<FALSE, TRUE>>

PlainOrShared == {<<FALSE, FALSE>>, <<TRUE, TRUE>>}

Even(s) == s + (s % 2)

Alike == Permutations(Memories) \union Permutations(Arrays)

=============================================================================
