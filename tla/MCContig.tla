------------------------------ MODULE MCContig ------------------------------
(* Instances of Contig for TLC: pages of two bytes, a machine of 32        *)
(* addresses, memory of eight pages of which the top three are the two     *)
(* instance pages and one page of padding the supply never owns.           *)
EXTENDS Contig, TLC

Supplied == 1..6
Short    == 1..5

AnyOne   == [bytes |-> 1, low |-> 0, high |-> 31, align |-> 0]
Even     == [bytes |-> 1, low |-> 0, high |-> 31, align |-> 4]
AnyTwo   == [bytes |-> 3, low |-> 0, high |-> 31, align |-> 0]
Low      == [bytes |-> 2, low |-> 2, high |-> 5, align |-> 0]
PinLow   == [bytes |-> 2, low |-> 2, high |-> 3, align |-> 0]
PinInst  == [bytes |-> 2, low |-> 10, high |-> 11, align |-> 0]
Nothing  == [bytes |-> 0, low |-> 0, high |-> 31, align |-> 0]

Ordinary == {Even, AnyTwo, Low, Nothing}
Small    == {AnyOne, PinLow}
Pins     == {AnyOne, PinInst}

(* Threads that may all do the same are interchangeable. *)
Alike == Permutations(Thread)

=============================================================================
