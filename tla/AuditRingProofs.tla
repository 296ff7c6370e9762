--------------------------- MODULE AuditRingProofs ---------------------------
(***************************************************************************)
(* The audit ring of any capacity is a bounded log: AuditRing implements   *)
(* BoundedLog under the mapping log <- List(0).                            *)
(***************************************************************************)
EXTENDS AuditRing, TLAPS

LEMMA CapIsPositive == Cap \in Nat /\ Cap >= 4
BY RequestedAssumption DEF Cap, MinCap, MaxCap

\* Reduction modulo c of what the ring's index arithmetic produces.
LEMMA ModReduce ==
    ASSUME NEW c \in Nat, c > 0, NEW a \in Int
    PROVE  /\ 0 <= a /\ a < c => a % c = a
           /\ c <= a /\ a < 2 * c => a % c = a - c
           /\ 2 * c <= a /\ a < 3 * c => a % c = a - 2 * c
BY SMTT(60)

\* The typing every other fact rests on.
THEOREM RingTyped == RingSpec => []RingTypeOK
<1>. USE CapIsPositive
<1>1. RingInit => RingTypeOK
  BY DEF RingInit, RingTypeOK, Slots
<1>2. RingTypeOK /\ [RingNext]_ringVars => RingTypeOK'
  <2> SUFFICES ASSUME RingTypeOK, [RingNext]_ringVars PROVE RingTypeOK'
    OBVIOUS
  <2>1. CASE UNCHANGED ringVars
    BY <2>1 DEF ringVars, RingTypeOK
  <2>2. ASSUME NEW e \in Entries, Add(e) PROVE RingTypeOK'
    <3>1. buf' \in [Slots -> Entries \cup {Blank}]
      BY <2>2 DEF Add, RingTypeOK
    <3>2. next' \in Slots
      BY <2>2, ModReduce DEF Add, RingTypeOK, Slots
    <3>3. size' \in 0 .. Cap
      BY <2>2 DEF Add, RingTypeOK
    <3>. QED BY <3>1, <3>2, <3>3 DEF RingTypeOK
  <2>. QED BY <2>1, <2>2 DEF RingNext
<1>. QED BY <1>1, <1>2, PTL DEF RingSpec

\* The whole listing, with the limit resolved.
LEMMA ListAll ==
    RingTypeOK => /\ List(0) = [k \in 1 .. size |-> buf[(next - k + 2 * Cap) % Cap]]
              /\ List(0) \in Seq(Entries \cup {Blank})
              /\ Len(List(0)) = size
<1>. SUFFICES ASSUME RingTypeOK
     PROVE  /\ List(0) = [k \in 1 .. size |-> buf[(next - k + 2 * Cap) % Cap]]
            /\ List(0) \in Seq(Entries \cup {Blank})
            /\ Len(List(0)) = size
  OBVIOUS
<1>. USE CapIsPositive
<1>1. \A k \in 1 .. size : next - 1 - (k - 1) + 2 * Cap = next - k + 2 * Cap
  BY DEF RingTypeOK, Slots
<1>2. List(0) = [k \in 1 .. size |-> buf[(next - k + 2 * Cap) % Cap]]
  BY <1>1 DEF List, SlotOf, RingTypeOK
<1>3. \A k \in 1 .. size : (next - k + 2 * Cap) % Cap \in Slots
  BY ModReduce DEF RingTypeOK, Slots
<1>4. \A k \in 1 .. size : List(0)[k] \in Entries \cup {Blank}
  BY <1>2, <1>3 DEF RingTypeOK
<1>. QED BY <1>2, <1>4 DEF RingTypeOK

LEMMA ListAllNext ==
    RingTypeOK' => List(0)' = [k \in 1 .. size' |-> buf'[(next' - k + 2 * Cap) % Cap]]
<1>1. (RingTypeOK => List(0) = [k \in 1 .. size |-> buf[(next - k + 2 * Cap) % Cap]])'
  BY ListAll, PTL
<1>. QED BY <1>1

\* One Add, seen through the listing: the new entry in front, the others one
\* place further back.
LEMMA AddInList ==
    ASSUME RingTypeOK, RingTypeOK', NEW e, Add(e)
    PROVE  /\ size' = (IF size < Cap THEN size + 1 ELSE Cap) /\ size' \in 1 .. Cap
           /\ List(0)' = [k \in 1 .. size' |-> List(0)'[k]]
           /\ List(0)'[1] = e
           /\ \A k \in 2 .. size' : k - 1 \in 1 .. size /\ List(0)'[k] = List(0)[k - 1]
<1>. USE CapIsPositive
<1> DEFINE old == List(0)
           new == [k \in 1 .. size' |-> buf'[(next' - k + 2 * Cap) % Cap]]
           kept == IF size < Cap THEN size + 1 ELSE Cap
<1>1. /\ size \in 0 .. Cap /\ next \in Slots /\ size' = kept
      /\ next' = (next + 1) % Cap /\ kept \in 1 .. Cap
  BY DEF RingTypeOK, Add
<1>2. List(0)' = new
  BY ListAllNext
<1>a. \A k \in 1 .. kept : new[k] = buf'[(next' - k + 2 * Cap) % Cap]
  BY <1>1
<1>b. new = [k \in 1 .. kept |-> new[k]]
  BY <1>1
<1>. HIDE DEF new
<1>3. \A k \in 1 .. kept : (next' - k + 2 * Cap) % Cap =
                            (next - (k - 1) + 2 * Cap) % Cap
  <2> SUFFICES ASSUME NEW k \in 1 .. kept
               PROVE (next' - k + 2 * Cap) % Cap = (next - (k - 1) + 2 * Cap) % Cap
    OBVIOUS
  <2>1. CASE next + 1 < Cap
    <3>1. next' = next + 1
      BY <2>1, <1>1, ModReduce DEF Slots
    <3>. QED BY <3>1, <1>1 DEF Slots
  <2>2. CASE next + 1 = Cap
    <3>1. next' = 0
      BY <2>2, <1>1, ModReduce DEF Slots
    <3>2. (0 - k + 2 * Cap) % Cap = IF k = Cap THEN 0 ELSE Cap - k
      BY <1>1, ModReduce
    <3>3. (next - (k - 1) + 2 * Cap) % Cap = IF k = Cap THEN 0 ELSE Cap - k
      BY <2>2, <1>1, ModReduce DEF Slots
    <3>. QED BY <3>1, <3>2, <3>3
  <2>. QED BY <2>1, <2>2, <1>1 DEF Slots
<1>4. (next - (1 - 1) + 2 * Cap) % Cap = next
  BY <1>1, ModReduce DEF Slots
<1>5. \A k \in 2 .. kept : /\ (next - (k - 1) + 2 * Cap) % Cap # next
                            /\ (next - (k - 1) + 2 * Cap) % Cap \in Slots
                            /\ k - 1 \in 1 .. size
  BY <1>1, ModReduce DEF Slots
<1>6. buf' = [buf EXCEPT ![next] = e] /\ DOMAIN buf = Slots
  BY DEF Add, RingTypeOK
<1>7. new[1] = e
  BY <1>1, <1>3, <1>4, <1>6, <1>a
<1>8. \A k \in 2 .. kept : new[k] = old[k - 1]
  <2> SUFFICES ASSUME NEW k \in 2 .. kept PROVE new[k] = old[k - 1]
    OBVIOUS
  <2>1. new[k] = buf'[(next - (k - 1) + 2 * Cap) % Cap]
    <3>1. k \in 1 .. kept
      BY <1>1
    <3>. HIDE DEF kept
    <3>. QED BY <3>1, <1>3, <1>a
  <2>2. new[k] = buf[(next - (k - 1) + 2 * Cap) % Cap]
    BY <2>1, <1>5, <1>6
  <2>. QED BY <2>2, <1>5, ListAll
<1>9. List(0)' = [k \in 1 .. size' |-> List(0)'[k]]
  BY <1>1, <1>2, <1>b
<1>10. \A k \in 2 .. size' : k - 1 \in 1 .. size /\ List(0)'[k] = List(0)[k - 1]
  BY <1>1, <1>2, <1>5, <1>8
<1>. QED BY <1>1, <1>2, <1>7, <1>9, <1>10

\* The one that no longer fits is gone.
LEMMA AddIsLogAdd ==
    ASSUME RingTypeOK, RingTypeOK', NEW e \in Entries, Add(e)
    PROVE  Log!Add(e)
<1>. USE CapIsPositive
<1> DEFINE old == List(0)
           kept == size'
<1>1. /\ size \in 0 .. Cap /\ kept = (IF size < Cap THEN size + 1 ELSE Cap) /\ kept \in 1 .. Cap
  BY AddInList DEF RingTypeOK
<1>9. Log!Keep(<<e>> \o old) = [k \in 1 .. kept |-> IF k = 1 THEN e ELSE old[k - 1]]
  <2>1. /\ old \in Seq(Entries \cup {Blank}) /\ Len(old) = size
    BY ListAll
  <2> DEFINE s == <<e>> \o old
  <2>2. s \in Seq(Entries \cup {Blank}) /\ Len(s) = size + 1
    BY <2>1
  <2>3. \A k \in 1 .. size + 1 : s[k] = IF k = 1 THEN e ELSE old[k - 1]
    BY <2>1, <1>1
  <2>4. Log!Keep(s) = SubSeq(s, 1, kept)
    BY <2>2, <1>1 DEF Log!Keep
  <2>. HIDE DEF s
  <2>5. SubSeq(s, 1, kept) = [k \in 1 .. kept |-> s[k]]
    BY <2>2, <1>1
  <2>6. \A k \in 1 .. kept : k \in 1 .. size + 1
    BY <1>1
  <2>. QED BY <2>3, <2>4, <2>5, <2>6 DEF s
<1>10. List(0)' = [k \in 1 .. kept |-> IF k = 1 THEN e ELSE old[k - 1]]
  <2>1. \A k \in 1 .. kept : k = 1 \/ k \in 2 .. kept
    BY <1>1
  <2>. QED BY <2>1, AddInList
<1>. QED BY <1>9, <1>10 DEF Log!Add

\* The refinement, for every capacity and every set of entries: what the audit
\* page shows is a bounded log (log.go:41-74).
THEOREM RingIsBoundedLog == RingSpec => IsBoundedLog
<1>1. RingInit => Log!Init
  <2> SUFFICES ASSUME RingInit PROVE List(0) = << >>
    BY DEF Log!Init
  <2>. QED BY CapIsPositive DEF RingInit, List
<1>2. RingTypeOK /\ RingTypeOK' /\ [RingNext]_ringVars => [Log!Next]_(List(0))
  <2> SUFFICES ASSUME RingTypeOK, RingTypeOK', [RingNext]_ringVars
               PROVE [Log!Next]_(List(0))
    OBVIOUS
  <2>1. CASE UNCHANGED ringVars
    BY <2>1 DEF ringVars, List, SlotOf
  <2>2. ASSUME NEW e \in Entries, Add(e) PROVE Log!Next
    BY <2>2, AddIsLogAdd DEF Log!Next
  <2>. QED BY <2>1, <2>2 DEF RingNext
<1>. QED BY <1>1, <1>2, RingTyped, PTL DEF RingSpec, Log!Spec, IsBoundedLog

=============================================================================
