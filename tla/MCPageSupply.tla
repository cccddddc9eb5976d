---------------------------- MODULE MCPageSupply ----------------------------
(* Small instances of the page supply for TLC.  Frames 1 and 2 are below   *)
(* the floor, frame 3 (the floor itself) is reserved as 0x10 is by the     *)
(* loader, 7 and 8 form the kernel class.                                  *)
EXTENDS PageSupply

\* Contiguous requests that stay at or above the floor: a wide one, an
\* aligned pair, and an exact one-frame pin.
GenericRequests ==
    {[pages |-> 2, low |-> 4, high |-> 99, align |-> 2],
     [pages |-> 3, low |-> 4, high |-> 6, align |-> 1],
     [pages |-> 1, low |-> 5, high |-> 5, align |-> 1]}

\* Requests that reach the pin-only frames: a pin of both, and a one-frame
\* request without a lower bound; and two that do not.
PinRequests ==
    {[pages |-> 2, low |-> 0, high |-> 2, align |-> 1],
     [pages |-> 1, low |-> 0, high |-> 6, align |-> 1],
     [pages |-> 2, low |-> 4, high |-> 99, align |-> 2]}

AllRequests == GenericRequests \cup PinRequests
=============================================================================
