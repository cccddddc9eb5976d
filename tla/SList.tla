-------------------------------- MODULE SList --------------------------------
(***************************************************************************)
(* The title's interlocked singly linked lists: XeInterlockedPopEntrySList *)
(* and XeInterlockedPushEntrySList of ntoskrnl/xb/xbe.c, and the inherited *)
(* ExInterlockedFlushSList (ntoskrnl/ex/i386/fastinterlck_asm.S), which    *)
(* ordinal 56 is bound to.                                                 *)
(*                                                                         *)
(* The header is one 8-byte word, replaced by a compare-and-swap.  It is   *)
(* read with two 4-byte loads, so a thread may be preempted between them;  *)
(* "op" is how far each thread's attempt has got.  An entry's link is a    *)
(* word of the entry: whoever has the entry may write anything there.      *)
(***************************************************************************)
EXTENDS Integers, Sequences, FiniteSets

CONSTANTS
  Thread,
  NoThread,     \* the entry is on the list
  Entry,
  NoEntry,      \* NULL
  UShort,       \* range of Depth and Sequence, 2^16 in the code
  FlushAlone    \* whether a flush waits for pops under way to end

ASSUME SListAssumption ==
  /\ NoThread \notin Thread /\ NoEntry \notin Entry
  /\ IsFiniteSet(Entry) /\ UShort \in Nat /\ UShort > Cardinality(Entry)
  /\ FlushAlone \in BOOLEAN

VARIABLES
  header,   \* SLIST_HEADER
  link,     \* Next of each entry
  owner,    \* who has each entry
  op        \* the call each thread is in

vars == <<header, link, owner, op>>

NxpSListPack(next, depth, sequence) ==
  [low |-> next, high |-> [depth |-> depth % UShort, sequence |-> sequence % UShort]]

Empty == NxpSListPack(NoEntry, 0, 0)

\* got: the halves of the header read so far; next: what the new header
\* will point to.
NoOp == [call |-> "none", pc |-> "idle", got |-> {}, old |-> Empty, next |-> NoEntry,
         entry |-> NoEntry]
Begin(call, e) == [NoOp EXCEPT !.call = call, !.pc = "load", !.entry = e]

Init ==
  /\ header = Empty
  /\ link = [e \in Entry |-> NoEntry]
  /\ owner \in [Entry -> Thread]
  /\ op = [t \in Thread |-> NoOp]

In(t, call, pc) == op[t].call = call /\ op[t].pc = pc
SetOp(t, o)     == op' = [op EXCEPT ![t] = o]

-------------------------------------------------------------------------------
(* Calls *)

InPop(t) == op[t].call = "pop"

Pop(t) ==
  /\ op[t] = NoOp
  /\ FlushAlone => \A u \in Thread : op[u].call # "flush"
  /\ SetOp(t, Begin("pop", NoEntry))
  /\ UNCHANGED <<header, link, owner>>

Push(t, e) ==
  /\ op[t] = NoOp /\ owner[e] = t
  /\ SetOp(t, Begin("push", e))
  /\ UNCHANGED <<header, link, owner>>

Flush(t) ==
  /\ op[t] = NoOp
  /\ FlushAlone => \A u \in Thread : ~InPop(u)
  /\ SetOp(t, Begin("flush", NoEntry))
  /\ UNCHANGED <<header, link, owner>>

\* A thread writes to an entry it has and is not pushing.
Use(t, e) ==
  /\ owner[e] = t /\ op[t].entry # e
  /\ \E v \in (Entry \cup {NoEntry}) \ {link[e]} : link' = [link EXCEPT ![e] = v]
  /\ UNCHANGED <<header, owner, op>>

-------------------------------------------------------------------------------
(* One attempt *)

\* oldHead = ListHead->Alignment: two loads, in the order the compiler likes;
\* the assembly of the flush loads the high half first.
LoadHalf(t, half) ==
  /\ op[t].pc = "load" /\ half \notin op[t].got
  /\ op[t].call = "flush" /\ half = "low" => "high" \in op[t].got
  /\ SetOp(t, [op[t] EXCEPT !.got = @ \cup {half},
                            !.old = IF half = "low" THEN [@ EXCEPT !.low = header.low]
                                    ELSE [@ EXCEPT !.high = header.high],
                            !.pc = IF op[t].got = {} THEN "load" ELSE "loaded"])
  /\ UNCHANGED <<header, link, owner>>

\* Nothing on the list: a pop and a flush return.
ReturnEmpty(t) ==
  /\ In(t, "pop", "loaded") \/ In(t, "flush", "loaded")
  /\ op[t].old.low = NoEntry
  /\ SetOp(t, NoOp)
  /\ UNCHANGED <<header, link, owner>>

\* entry->Next, whoever has the entry by now.
PopLink(t) ==
  /\ In(t, "pop", "loaded") /\ op[t].old.low # NoEntry
  /\ SetOp(t, [op[t] EXCEPT !.next = link[op[t].old.low], !.pc = "swap"])
  /\ UNCHANGED <<header, link, owner>>

\* Entry->Next = oldFirst.
PushLink(t) ==
  /\ In(t, "push", "loaded")
  /\ link' = [link EXCEPT ![op[t].entry] = op[t].old.low]
  /\ SetOp(t, [op[t] EXCEPT !.next = op[t].entry, !.pc = "swap"])
  /\ UNCHANGED <<header, owner>>

FlushLink(t) ==
  /\ In(t, "flush", "loaded") /\ op[t].old.low # NoEntry
  /\ SetOp(t, [op[t] EXCEPT !.pc = "swap"])
  /\ UNCHANGED <<header, link, owner>>

\* The words from entry e on spell the sequence s.
Spells(s, e) ==
  /\ e = IF s = <<>> THEN NoEntry ELSE s[1]
  /\ \A i \in DOMAIN s : link[s[i]] = IF i = Len(s) THEN NoEntry ELSE s[i + 1]

\* The list that starts at e; the links of a list never run in a circle.
Chains == UNION {[1 .. n -> Entry] : n \in 0 .. Cardinality(Entry)}
Chain(e) == IF \E s \in Chains : Spells(s, e) THEN CHOOSE s \in Chains : Spells(s, e) ELSE <<>>
Listed(e) == {Chain(e)[i] : i \in DOMAIN Chain(e)}

\* Mutant for RefinesStack: a pop leaves the sequence alone too.
NewHeaderNoSequence(o) ==
  CASE o.call = "pop"   -> NxpSListPack(o.next, o.old.high.depth - 1, o.old.high.sequence)
    [] o.call = "push"  -> NxpSListPack(o.next, o.old.high.depth + 1, o.old.high.sequence)
    [] o.call = "flush" -> NxpSListPack(NoEntry, 0, o.old.high.sequence)

NewHeader(o) ==
  CASE o.call = "pop"   -> NxpSListPack(o.next, o.old.high.depth - 1, o.old.high.sequence + 1)
    [] o.call = "push"  -> NxpSListPack(o.next, o.old.high.depth + 1, o.old.high.sequence)
    [] o.call = "flush" -> NxpSListPack(NoEntry, 0, o.old.high.sequence)

\* Who has the entries after a successful swap.
NewOwner(t, o) ==
  [e \in Entry |->
     CASE o.call = "pop" /\ e = o.old.low             -> t
       [] o.call = "push" /\ e = o.entry              -> NoThread
       [] o.call = "flush" /\ e \in Listed(o.old.low) -> t
       [] OTHER                                       -> owner[e]]

\* Bound: the sequence does not come round to the value another thread has
\* loaded, which takes UShort pops within that thread's attempt.
NoWrap(t) ==
  InPop(t) => \A u \in Thread \ {t} :
     op[u].got # {} /\ "high" \in op[u].got
        => op[u].old.high.sequence # (op[t].old.high.sequence + 1) % UShort

Swap(t) ==
  /\ op[t].pc = "swap" /\ header = op[t].old /\ NoWrap(t)
  /\ header' = NewHeader(op[t])
  /\ owner' = NewOwner(t, op[t])
  /\ SetOp(t, NoOp)
  /\ UNCHANGED link

\* Mutant for LockFree: the attempt is repeated with the header of before.
RetryOld(o) == o

\* A failed swap: pop and push load the header again, the flush has it from
\* the failed cmpxchg8b.
Retry(o) ==
  IF o.call = "flush" THEN [o EXCEPT !.old = header, !.pc = "loaded"] ELSE Begin(o.call, o.entry)

SwapFails(t) ==
  /\ op[t].pc = "swap" /\ header # op[t].old
  /\ SetOp(t, Retry(op[t]))
  /\ UNCHANGED <<header, link, owner>>

Attempt(t) ==
  \/ LoadHalf(t, "low") \/ LoadHalf(t, "high")
  \/ ReturnEmpty(t) \/ PopLink(t) \/ PushLink(t) \/ FlushLink(t) \/ Swap(t) \/ SwapFails(t)

Next ==
  \E t \in Thread :
     \/ Pop(t) \/ Flush(t) \/ Attempt(t)
     \/ \E e \in Entry : Push(t, e) \/ Use(t, e)

Spec == Init /\ [][Next]_vars

\* A thread inside a call goes on.
FairSpec == Spec /\ \A t \in Thread : WF_vars(Attempt(t))

-------------------------------------------------------------------------------
(* Properties *)

\* The list as the words describe it.
Items == Chain(header.low)

Promise == INSTANCE Stack WITH items <- Items, depth <- header.high.depth

\* Every operation takes effect at once, at its successful swap: a pop takes
\* the entry that is on top then, although the link it puts into the header
\* was read earlier from an entry that others may have popped, written to
\* and pushed again since; and the depth is the number of entries.
RefinesStack == Promise!Spec

\* Whatever the threads do to each other's attempts, calls keep returning:
\* an attempt fails only because another call has taken effect.
LockFree == []<>(\E t \in Thread : op[t] = NoOp)
===============================================================================
