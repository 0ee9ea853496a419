-------------------------- MODULE DeviceLifeProofs --------------------------
(***************************************************************************)
(* Proofs about a device's life, for any number of attempts to link it,    *)
(* any batch and range of ids, and any transfer: what the application is   *)
(* told is true, the keys a peer may be served are held, a refresh that    *)
(* succeeded is not repeated, and the archive arrives whole and in time.   *)
(***************************************************************************)
EXTENDS DeviceLife, FiniteSetTheorems, FunctionTheorems, SequenceTheorems, TLAPS

-----------------------------------------------------------------------------
(* The transfer archive *)

Waits == {"none", "Available", "Error", "NoContent", "Empty", "OtherCode"}

\* A request is under way no longer than its HTTP timeout, and what the server was
\* asked to wait ends at the deadline, to the nearest second.
PollOK ==
    /\ arch.now \in Nat /\ arch.asked \in Nat /\ arch.secs \in Nat
    /\ arch.answer \in Waits
    /\ arch.result = "Timeout" => arch.now >= Total
    /\ arch.pc = "wait" =>
          /\ arch.now <= HttpTimeout
          /\ 2 * (arch.asked + arch.secs * Second) <= 2 * Total + Second

\* What has been read is a prefix of the archive, and all of it only at the end.
FileOK ==
    /\ arch.file \in Seq(Nat)
    /\ \A k \in 1..Len(arch.file) : arch.file[k] = k
    /\ Len(arch.file) <= Size
    /\ arch.total \in {0, Size}
    /\ arch.result = "Whole" => Len(arch.file) = Size
    /\ arch.pc \in {"off", "poll", "wait"} => arch.file = <<>> /\ arch.result = "none"

Fields == {"pc", "now", "asked", "secs", "ready", "answer", "result", "file", "total", "breaks"}
ArchiveInv ==
    /\ arch = [f \in Fields |-> arch[f]]
    /\ PollOK /\ FileOK

\* Rounding to seconds is off by half a second at most.
LEMMA RoundedSeconds ==
    ASSUME TransferAssumption, NEW remaining \in Nat
    PROVE  /\ PollSeconds(remaining) \in Nat
           /\ 2 * (PollSeconds(remaining) * Second) <= 2 * remaining + Second
<1> DEFINE a == 2 * LesserOf(remaining, PollCap * Second) + Second
           b == 2 * Second
<1>1. Second \in Nat /\ Second > 0 /\ PollCap * Second \in Nat
  BY DEF TransferAssumption
<1>2. a \in Nat /\ b \in Nat /\ b > 0 /\ a <= 2 * remaining + Second
  BY <1>1 DEF LesserOf
<1>3. PollSeconds(remaining) = a \div b
  BY DEF PollSeconds
<1> HIDE DEF a, b
<1>4. a \div b \in Nat /\ b * (a \div b) <= a
  BY <1>2
<1>5. b * (a \div b) = 2 * ((a \div b) * Second)
  BY <1>1, <1>4 DEF b
<1> QED BY <1>1, <1>2, <1>3, <1>4, <1>5

\* A transfer that has not begun.
LEMMA ArchiveInit ==
    ASSUME TransferAssumption, arch = NotStarted
    PROVE  ArchiveInv
BY DEF ArchiveInv, Fields, NotStarted, PollOK, FileOK, Waits, TransferAssumption

\* Every step of get_transfer_archive and of the download keeps its invariant.
LEMMA ArchiveSteps ==
    ASSUME TransferAssumption, ArchiveInv, ArchiveStep
    PROVE  ArchiveInv'
<1>1. /\ Second \in Nat /\ Second > 0 /\ Total \in Nat /\ Leeway \in Nat
      /\ Size \in Nat /\ Size > 0
  BY DEF TransferAssumption
<1>2. /\ arch = [f \in Fields |-> arch[f]] /\ arch.now \in Nat /\ arch.asked \in Nat
      /\ arch.secs \in Nat
  BY DEF ArchiveInv, PollOK
<1>3. CASE StartPoll
  BY <1>1, <1>2, <1>3 DEF StartPoll, ArchiveInv, Fields, PollOK, FileOK, Waits
<1>4. CASE Poll
  <2> DEFINE remaining == Monus(Total, arch.now)
  <2>1. remaining \in Nat /\ (remaining = 0 => arch.now >= Total)
        /\ (remaining # 0 => arch.now + remaining = Total)
    BY <1>1, <1>2 DEF Monus
  <2>2. CASE remaining = 0
    BY <1>1, <1>2, <1>4, <2>1, <2>2 DEF Poll, ArchiveInv, Fields, PollOK, FileOK, Waits
  <2>3. CASE remaining # 0
    <3> DEFINE s == PollSeconds(remaining)
    <3>1. s \in Nat /\ 2 * (s * Second) <= 2 * remaining + Second
      BY <2>1, RoundedSeconds
    <3>2. arch' = [arch EXCEPT !.pc = "wait", !.asked = arch.now, !.answer = "none", !.secs = s]
      BY <1>4, <2>3 DEF Poll
    <3> HIDE DEF s
    <3>3. /\ arch'.now = arch.now /\ arch'.asked = arch.now /\ arch'.secs = s
          /\ arch'.pc = "wait" /\ arch'.answer = "none" /\ arch'.result = arch.result
          /\ arch'.file = arch.file /\ arch'.total = arch.total
          /\ arch' = [f \in Fields |-> arch'[f]]
      BY <1>2, <3>2 DEF Fields
    <3>4. s * Second \in Nat /\ (s + Leeway) * Second \in Nat
      BY <1>1, <3>1
    <3>5. arch'.now <= HttpTimeout'
      BY <1>2, <3>3, <3>4 DEF HttpTimeout
    <3>6. 2 * (arch'.asked + arch'.secs * Second) <= 2 * Total + Second
      BY <1>1, <1>2, <2>1, <2>3, <3>1, <3>3, <3>4
    <3>7. arch.result = "none"
      BY <1>4 DEF Poll, ArchiveInv, FileOK
    <3>8. PollOK'
      BY <1>2, <3>1, <3>3, <3>5, <3>6, <3>7 DEF PollOK, Waits
    <3>9. FileOK'
      BY <1>4, <3>3, <3>7 DEF Poll, ArchiveInv, FileOK
    <3> QED BY <3>3, <3>8, <3>9 DEF ArchiveInv
  <2> QED BY <2>2, <2>3
<1>5. CASE ServePoll
  BY <1>1, <1>2, <1>5 DEF ServePoll, ArchiveInv, Fields, PollOK, FileOK, Waits, HttpTimeout
<1>6. CASE TakeAnswer
  BY <1>1, <1>2, <1>6 DEF TakeAnswer, ArchiveInv, Fields, PollOK, FileOK, Waits
<1>7. CASE HttpTimesOut
  BY <1>1, <1>2, <1>7 DEF HttpTimesOut, ArchiveInv, Fields, PollOK, FileOK, Waits
<1>8. CASE Tick
  <2>1. HttpTimeout' = HttpTimeout /\ HttpTimeout \in Nat
    BY <1>1, <1>2, <1>8 DEF Tick, HttpTimeout, Fields
  <2>2. /\ arch'.now = arch.now + 1 /\ arch'.asked = arch.asked /\ arch'.secs = arch.secs
        /\ arch'.pc = arch.pc /\ arch'.answer = arch.answer /\ arch'.result = arch.result
        /\ arch'.file = arch.file /\ arch'.total = arch.total
        /\ arch' = [f \in Fields |-> arch'[f]]
    BY <1>2, <1>8 DEF Tick, Fields
  <2>3. arch.now + 1 <= HttpTimeout
    BY <1>2, <1>8, <2>1 DEF Tick
  <2>4. PollOK'
    BY <1>1, <1>2, <1>8, <2>1, <2>2, <2>3 DEF PollOK, Tick, ArchiveInv, Waits
  <2>5. FileOK'
    BY <2>2 DEF FileOK, ArchiveInv
  <2> QED BY <2>2, <2>4, <2>5 DEF ArchiveInv
<1>9. CASE PrimaryUploads
  BY <1>1, <1>2, <1>9 DEF PrimaryUploads, ArchiveInv, Fields, PollOK, FileOK, Waits, HttpTimeout
<1>10. CASE StartDownload
  BY <1>1, <1>2, <1>10 DEF StartDownload, NotStarted, ArchiveInv, Fields, PollOK, FileOK, Waits
<1>11. CASE Download
  <2> DEFINE start == Len(arch.file)
  <2>0. /\ start \in Nat /\ arch.file \in Seq(Nat) /\ start <= Size /\ arch.pc = "fetch"
        /\ \A k \in 1..start : arch.file[k] = k
    <3>1. FileOK /\ arch.pc = "fetch"
      BY <1>11 DEF Download, ArchiveInv
    <3> QED BY <3>1 DEF FileOK
  <2>1. PICK response \in Responses(start) :
          IF ~Accepted(start, response)
          THEN arch' = [arch EXCEPT !.pc = "done", !.result = "UnhandledResponseCode"]
          ELSE \/ arch' = [arch EXCEPT !.pc = "done", !.result = "InvalidFrame"]
               \/ \E n \in 0..response.length :
                    LET part == [k \in 1..n |-> response.from + k]
                        now == [arch EXCEPT !.file = @ \o part,
                                            !.total = TotalBytes(start, response)] IN
                    arch' = IF n = response.length
                            THEN [now EXCEPT !.pc = "done", !.result = "Whole"]
                            ELSE IF arch.breaks = MaxBreaks
                                 THEN [now EXCEPT !.pc = "done", !.result = "Broken"]
                                 ELSE [now EXCEPT !.breaks = @ + 1]
    BY <1>11 DEF Download
  <2>2. CASE \/ arch' = [arch EXCEPT !.pc = "done", !.result = "UnhandledResponseCode"]
             \/ arch' = [arch EXCEPT !.pc = "done", !.result = "InvalidFrame"]
    BY <1>1, <1>2, <2>0, <2>1, <2>2 DEF ArchiveInv, Fields, PollOK, FileOK, Waits
  <2>3. CASE /\ Accepted(start, response)
             /\ arch' # [arch EXCEPT !.pc = "done", !.result = "InvalidFrame"]
    <3>1. /\ response.from = start /\ response.length = Size - start
          /\ TotalBytes(start, response) = Size
      BY <1>1, <2>0, <2>3 DEF Accepted, Responses, TotalBytes
    <3>2. PICK n \in 0..response.length :
            LET part == [k \in 1..n |-> response.from + k]
                now == [arch EXCEPT !.file = @ \o part,
                                    !.total = TotalBytes(start, response)] IN
            arch' = IF n = response.length THEN [now EXCEPT !.pc = "done", !.result = "Whole"]
                    ELSE IF arch.breaks = MaxBreaks
                         THEN [now EXCEPT !.pc = "done", !.result = "Broken"]
                         ELSE [now EXCEPT !.breaks = @ + 1]
      BY <2>1, <2>3, Zenon
    <3> DEFINE part == [k \in 1..n |-> response.from + k]
               file == arch.file \o part
    <3>3. /\ part \in Seq(Nat) /\ Len(part) = n /\ n \in 0..(Size - start)
          /\ \A k \in 1..n : part[k] = start + k
      BY <1>1, <2>0, <3>1
    <3>4. /\ file \in Seq(Nat) /\ Len(file) = start + n
          /\ \A k \in 1..(start + n) : file[k] = k
      <4> HIDE DEF part
      <4>1. file \in Seq(Nat) /\ Len(file) = start + n
        BY <2>0, <3>3, ConcatProperties
      <4>2. ASSUME NEW k \in 1..(start + n) PROVE file[k] = k
        <5>1. CASE k <= start
          BY <2>0, <3>3, <5>1
        <5>2. CASE k > start
          <6>1. k - start \in 1..n /\ file[k] = part[k - start]
            BY <2>0, <3>3, <5>2
          <6> QED BY <2>0, <3>3, <6>1
        <5> QED BY <2>0, <3>3, <5>1, <5>2
      <4> QED BY <4>1, <4>2
    <3>5. /\ arch' = [f \in Fields |-> arch'[f]] /\ arch'.file = file /\ arch'.total = Size
          /\ arch'.now = arch.now /\ arch'.asked = arch.asked /\ arch'.secs = arch.secs
          /\ arch'.answer = arch.answer
          /\ arch'.pc \in {"done", "fetch"}
          /\ \/ arch'.result = "Whole" /\ n = Size - start
             \/ arch'.result \in {"Broken", arch.result} /\ n # Size - start
      <4> HIDE DEF file
      <4> QED BY <1>2, <2>0, <3>1, <3>2 DEF Fields, file
    <3>6. arch.result = "Whole" => start = Size
      BY DEF ArchiveInv, FileOK
    <3>7. FileOK'
      <4> HIDE DEF file
      <4>1. arch'.file \in Seq(Nat) /\ (\A k \in 1..Len(arch'.file) : arch'.file[k] = k)
            /\ Len(arch'.file) = start + n
        BY <3>4, <3>5
      <4>2. arch'.result = "Whole" => start + n = Size
        BY <1>1, <2>0, <3>3, <3>5, <3>6
      <4> QED BY <1>1, <2>0, <3>3, <3>5, <4>1, <4>2 DEF FileOK
    <3>8. PollOK'
      BY <1>2, <3>5 DEF PollOK, ArchiveInv, Waits
    <3> QED BY <3>5, <3>7, <3>8 DEF ArchiveInv
  <2>4. Accepted(start, response) \/ ~Accepted(start, response)
    OBVIOUS
  <2> QED BY <2>1, <2>2, <2>3, <2>4, Zenon
<1>12. CASE Forget
  BY <1>1, <1>2, <1>12 DEF Forget, Over, NotStarted, ArchiveInv, Fields, PollOK, FileOK, Waits
<1> QED BY <1>3, <1>4, <1>5, <1>6, <1>7, <1>8, <1>9, <1>10, <1>11, <1>12 DEF ArchiveStep

-----------------------------------------------------------------------------
(* Natural numbers *)

\* Induction over data rests on this: a least counterexample.
LEMMA LeastNat ==
    ASSUME NEW T \in SUBSET Nat, T # {}
    PROVE  \E n \in T : \A m \in T : n <= m
<1> DEFINE R == OpToRel(<, Nat)
<1>1. IsWellFoundedOn(R, Nat)
  BY NatLessThanWellFounded
<1>2. \A x, y \in Nat : <<x, y>> \in R <=> x < y
  BY DEF OpToRel
<1> HIDE DEF R
<1>3. PICK n \in T : \A m \in T : ~(<<m, n>> \in R)
  BY <1>1, WFMin
<1>4. ASSUME NEW m \in T PROVE n <= m
  <2>1. n \in Nat /\ m \in Nat
    OBVIOUS
  <2>2. ~(m < n)
    BY <1>2, <1>3, <2>1, Zenon
  <2> QED BY <2>1, <2>2
<1> QED BY <1>3, <1>4

\* Two numbers less than m apart have different remainders.
LEMMA ModApart ==
    ASSUME NEW a \in Nat, NEW b \in Nat, NEW m \in Nat, a < b, b - a < m
    PROVE  a % m # b % m
<1>0. m > 0
  OBVIOUS
<1>1. /\ a % m = a - m * (a \div m) /\ a \div m \in Nat
      /\ b % m = b - m * (b \div m) /\ b \div m \in Nat
  BY <1>0
<1> DEFINE p == a \div m
           q == b \div m
<1>2. SUFFICES ASSUME a % m = b % m PROVE FALSE
  OBVIOUS
<1>3. p \in Nat /\ q \in Nat /\ m * p \in Nat /\ m * q \in Nat /\ b - a = m * q - m * p
  BY <1>1, <1>2
<1> HIDE DEF p, q
<1>4. CASE q <= p
  <2>1. m * q <= m * p /\ m * q \in Nat /\ m * p \in Nat
    BY <1>3, <1>4
  <2> QED BY <1>3, <2>1
<1>5. CASE q >= p + 1
  <2>1. m * q >= m * (p + 1) /\ m * (p + 1) = m * p + m /\ m * p \in Nat /\ m * q \in Nat
    BY <1>3, <1>5
  <2> QED BY <1>3, <2>1
<1> QED BY <1>3, <1>4, <1>5

-----------------------------------------------------------------------------
(* What the saves of one call make of a store *)

Store == [ec : SUBSET Key, pq : SUBSET Key, signed : Seq(Key), last : Seq(Key),
          next : [ec : Nat, pq : Nat, signed : Nat]]
SaveType == [slot : {"ec", "pq", "signed", "last"}, key : Key]

\* The recursion of Saved.
Follows(g, s, saves, n) ==
    g = [m \in 0..n |-> IF m = 0 THEN s ELSE Save(g[m - 1], saves[m])]

\* For any number of saves there is a function that follows them, by induction.
LEMMA FollowsExists ==
    ASSUME NEW s, NEW saves
    PROVE  \A n \in Nat : \E g : Follows(g, s, saves, n)
<1> DEFINE T == {n \in Nat : ~ \E g : Follows(g, s, saves, n)}
<1>1. SUFFICES ASSUME T # {} PROVE FALSE
  OBVIOUS
<1>2. PICK n \in T : \A m \in T : n <= m
  BY <1>1, LeastNat
<1>3. CASE n = 0
  <2>1. Follows([m \in 0..0 |-> s], s, saves, 0)
    BY DEF Follows
  <2> QED BY <2>1, <1>3
<1>4. CASE n # 0
  <2>1. n - 1 \in Nat /\ n - 1 \notin T
    BY <1>2, <1>4
  <2>2. PICK g : Follows(g, s, saves, n - 1)
    BY <2>1
  <2> DEFINE h == [m \in 0..n |-> IF m = n THEN Save(g[n - 1], saves[n]) ELSE g[m]]
  <2>3. ASSUME NEW m \in 0..n
        PROVE  h[m] = IF m = 0 THEN s ELSE Save(h[m - 1], saves[m])
    <3>1. CASE m = n
      BY <3>1, <1>4
    <3>2. CASE m # n
      <4>1. h[m] = g[m] /\ m \in 0..(n - 1)
        BY <3>2
      <4>2. g[m] = IF m = 0 THEN s ELSE Save(g[m - 1], saves[m])
        BY <2>2, <4>1 DEF Follows
      <4>3. m # 0 => h[m - 1] = g[m - 1]
        BY <3>2
      <4> QED BY <4>1, <4>2, <4>3
    <3> QED BY <3>1, <3>2
  <2>4. Follows(h, s, saves, n)
    BY <2>3 DEF Follows
  <2> QED BY <2>4
<1> QED BY <1>3, <1>4

\* Saved is the last value of such a function.
LEMMA SavedFollows ==
    ASSUME NEW s, NEW saves, NEW n \in Nat
    PROVE  \E g : Follows(g, s, saves, n) /\ Saved(s, saves, n) = g[n]
<1> DEFINE a == CHOOSE g : Follows(g, s, saves, n)
<1>1. Follows(a, s, saves, n)
  BY FollowsExists
<1>2. Saved(s, saves, n) = a[n]
  BY DEF Saved, Follows
<1> QED BY <1>1, <1>2

\* The positions of the saves that concern one-time keys, or Kyber keys of both
\* sorts, up to the n-th; no two save the same id, and one at most is signed, one
\* a last resort key.
EcSaves(saves, n) == {j \in 1..n : saves[j].slot = "ec"}
PqSaves(saves, n) == {j \in 1..n : saves[j].slot \in {"pq", "last"}}
Distinct(saves) ==
    \A j, k \in DOMAIN saves : j # k =>
        /\ ~(saves[j].slot = "ec" /\ saves[k].slot = "ec" /\ saves[j].key.id = saves[k].key.id)
        /\ ~(/\ saves[j].slot \in {"pq", "last"} /\ saves[k].slot \in {"pq", "last"}
             /\ saves[j].key.id = saves[k].key.id)
        /\ ~(saves[j].slot = "signed" /\ saves[k].slot = "signed")
        /\ ~(saves[j].slot = "last" /\ saves[k].slot = "last")

\* What is in a set of keys and what follows it, after saves at positions J.
Kept(old, new, saves, J) ==
    /\ \A x \in new : x \in old \/ \E j \in J : x = saves[j].key
    /\ \A j \in J : saves[j].key \in new
    /\ \A x \in old : (\A j \in J : saves[j].key.id # x.id) => x \in new
NextId(old, new, saves, J) ==
    \/ J = {} /\ new = old
    \/ \E j \in J : new = saves[j].key.id + 1 /\ \A k \in J : k <= j
Appended(old, new, saves, n, slot) ==
    \/ new = old /\ \A j \in 1..n : saves[j].slot # slot
    \/ \E j \in 1..n : saves[j].slot = slot /\ new = Append(old, saves[j].key)

Result(s, saves, n, a) ==
    /\ a \in Store
    /\ Kept(s.ec, a.ec, saves, EcSaves(saves, n))
    /\ Kept(s.pq, a.pq, saves, PqSaves(saves, n))
    /\ NextId(s.next.ec, a.next.ec, saves, EcSaves(saves, n))
    /\ NextId(s.next.pq, a.next.pq, saves, PqSaves(saves, n))
    /\ Appended(s.signed, a.signed, saves, n, "signed")
    /\ Appended(s.last, a.last, saves, n, "last")

\* One more save adds its key, and replaces none saved by the same call.
LEMMA SaveResult ==
    ASSUME NEW s \in Store, NEW saves \in Seq(SaveType), Distinct(saves),
           NEW n \in 1..Len(saves), NEW a, Result(s, saves, n - 1, a)
    PROVE  Result(s, saves, n, Save(a, saves[n]))
<1> DEFINE k == saves[n].key
           b == Save(a, saves[n])
<1>0. n \in DOMAIN saves /\ saves[n] \in SaveType
  OBVIOUS
<1>1. saves[n] \in SaveType /\ k \in Key /\ k.id \in Nat /\ a \in Store /\ n \in DOMAIN saves
  BY <1>0 DEF SaveType, Result, Key
<1>1a. /\ a = [f \in {"ec", "pq", "signed", "last", "next"} |-> a[f]]
       /\ a.next = [f \in {"ec", "pq", "signed"} |-> a.next[f]]
       /\ a.ec \subseteq Key /\ a.pq \subseteq Key /\ a.signed \in Seq(Key) /\ a.last \in Seq(Key)
       /\ a.next.ec \in Nat /\ a.next.pq \in Nat /\ a.next.signed \in Nat
  BY <1>1 DEF Store
<1>1b. Append(a.signed, k) \in Seq(Key) /\ Append(a.last, k) \in Seq(Key)
  BY <1>1, <1>1a, AppendProperties
<1>1c. SaveKey(a.ec, k) \subseteq Key /\ SaveKey(a.pq, k) \subseteq Key /\ k.id + 1 \in Nat
  BY <1>1, <1>1a DEF SaveKey
<1>2. 1..n = 1..(n - 1) \cup {n} /\ n \notin 1..(n - 1) /\ 1..(n - 1) \subseteq DOMAIN saves
  OBVIOUS
<1>3. CASE saves[n].slot = "ec"
  <2>1. b = [a EXCEPT !.ec = SaveKey(@, k), !.next.ec = k.id + 1]
    BY <1>3 DEF Save
  <2>x. b = [ec |-> SaveKey(a.ec, k), pq |-> a.pq, signed |-> a.signed, last |-> a.last,
             next |-> [ec |-> k.id + 1, pq |-> a.next.pq, signed |-> a.next.signed]]
    BY <1>1a, <2>1
  <2>2. /\ b \in Store /\ b.ec = SaveKey(a.ec, k) /\ b.next.ec = k.id + 1
        /\ b.pq = a.pq /\ b.next.pq = a.next.pq /\ b.signed = a.signed /\ b.last = a.last
    <3> HIDE DEF b, k
    <3> QED BY <1>1a, <1>1c, <2>x DEF Store
  <2>3. /\ EcSaves(saves, n) = EcSaves(saves, n - 1) \cup {n}
        /\ PqSaves(saves, n) = PqSaves(saves, n - 1)
    BY <1>2, <1>3 DEF EcSaves, PqSaves
  <2>4. \A j \in EcSaves(saves, n - 1) : saves[j].key.id # k.id /\ j <= n
    BY <1>1, <1>2, <1>3 DEF EcSaves, Distinct
  <2>5. Kept(s.ec, b.ec, saves, EcSaves(saves, n))
    BY <2>2, <2>3, <2>4 DEF Result, Kept, SaveKey
  <2>6. NextId(s.next.ec, b.next.ec, saves, EcSaves(saves, n))
    BY <2>2, <2>3, <2>4 DEF NextId
  <2>7. /\ Appended(s.signed, b.signed, saves, n, "signed")
        /\ Appended(s.last, b.last, saves, n, "last")
    BY <1>2, <1>3, <2>2 DEF Result, Appended
  <2> QED BY <2>2, <2>3, <2>5, <2>6, <2>7 DEF Result
<1>4. CASE saves[n].slot \in {"pq", "last"}
  <2>1. b = IF saves[n].slot = "pq" THEN [a EXCEPT !.pq = SaveKey(@, k), !.next.pq = k.id + 1]
            ELSE [a EXCEPT !.pq = SaveKey(@, k), !.last = Append(@, k), !.next.pq = k.id + 1]
    BY <1>4 DEF Save
  <2>x. b = [ec |-> a.ec, pq |-> SaveKey(a.pq, k), signed |-> a.signed,
             last |-> IF saves[n].slot = "pq" THEN a.last ELSE Append(a.last, k),
             next |-> [ec |-> a.next.ec, pq |-> k.id + 1, signed |-> a.next.signed]]
    BY <1>1a, <2>1
  <2>2. /\ b \in Store /\ b.pq = SaveKey(a.pq, k) /\ b.next.pq = k.id + 1
        /\ b.ec = a.ec /\ b.next.ec = a.next.ec /\ b.signed = a.signed
        /\ b.last = IF saves[n].slot = "pq" THEN a.last ELSE Append(a.last, k)
    <3> HIDE DEF b, k
    <3> QED BY <1>1a, <1>1b, <1>1c, <2>x DEF Store
  <2>3. /\ PqSaves(saves, n) = PqSaves(saves, n - 1) \cup {n}
        /\ EcSaves(saves, n) = EcSaves(saves, n - 1)
    BY <1>2, <1>4 DEF EcSaves, PqSaves
  <2>4. \A j \in PqSaves(saves, n - 1) : saves[j].key.id # k.id /\ j <= n
    BY <1>1, <1>2, <1>4 DEF PqSaves, Distinct
  <2>5. Kept(s.pq, b.pq, saves, PqSaves(saves, n))
    BY <2>2, <2>3, <2>4 DEF Result, Kept, SaveKey
  <2>6. NextId(s.next.pq, b.next.pq, saves, PqSaves(saves, n))
    BY <2>2, <2>3, <2>4 DEF NextId
  <2>7. Appended(s.signed, b.signed, saves, n, "signed")
    BY <1>2, <1>4, <2>2 DEF Result, Appended
  <2>8. Appended(s.last, b.last, saves, n, "last")
    <3>1. CASE saves[n].slot = "pq"
      BY <1>2, <2>2, <3>1 DEF Result, Appended
    <3>2. CASE saves[n].slot = "last"
      <4>1. \A j \in 1..(n - 1) : saves[j].slot # "last"
        BY <1>1, <1>2, <3>2 DEF Distinct
      <4>2. a.last = s.last
        BY <4>1 DEF Result, Appended
      <4> QED BY <1>2, <2>2, <3>2, <4>2 DEF Appended
    <3> QED BY <1>4, <3>1, <3>2
  <2> QED BY <2>2, <2>3, <2>5, <2>6, <2>7, <2>8 DEF Result
<1>5. CASE saves[n].slot = "signed"
  <2>1. b = [a EXCEPT !.signed = Append(@, k), !.next.signed = k.id + 1]
    BY <1>5 DEF Save
  <2>x. b = [ec |-> a.ec, pq |-> a.pq, signed |-> Append(a.signed, k), last |-> a.last,
             next |-> [ec |-> a.next.ec, pq |-> a.next.pq, signed |-> k.id + 1]]
    BY <1>1a, <2>1
  <2>2. /\ b \in Store /\ b.pq = a.pq /\ b.next.pq = a.next.pq
        /\ b.ec = a.ec /\ b.next.ec = a.next.ec /\ b.last = a.last
        /\ b.signed = Append(a.signed, k)
    <3> HIDE DEF b, k
    <3> QED BY <1>1a, <1>1b, <1>1c, <2>x DEF Store
  <2>3. /\ PqSaves(saves, n) = PqSaves(saves, n - 1)
        /\ EcSaves(saves, n) = EcSaves(saves, n - 1)
    BY <1>2, <1>5 DEF EcSaves, PqSaves
  <2>4. Appended(s.last, b.last, saves, n, "last")
    BY <1>2, <1>5, <2>2 DEF Result, Appended
  <2>5. \A j \in 1..(n - 1) : saves[j].slot # "signed"
    BY <1>1, <1>2, <1>5 DEF Distinct
  <2>6. a.signed = s.signed
    BY <2>5 DEF Result, Appended
  <2>7. Appended(s.signed, b.signed, saves, n, "signed")
    BY <1>2, <1>5, <2>2, <2>6 DEF Appended
  <2> QED BY <2>2, <2>3, <2>4, <2>7 DEF Result
<1> QED BY <1>1, <1>3, <1>4, <1>5 DEF SaveType

\* What a store holds after the first n saves of a call.
LEMMA SavedResult ==
    ASSUME NEW s \in Store, NEW saves \in Seq(SaveType), Distinct(saves),
           NEW n \in 0..Len(saves)
    PROVE  Result(s, saves, n, Saved(s, saves, n))
<1>1. PICK g : Follows(g, s, saves, n) /\ Saved(s, saves, n) = g[n]
  BY SavedFollows
<1> DEFINE T == {m \in Nat : m <= n /\ ~Result(s, saves, m, g[m])}
<1>2. SUFFICES ASSUME T # {} PROVE FALSE
  BY <1>1
<1>3. PICK m \in T : \A k \in T : m <= k
  BY <1>2, LeastNat
<1>4. m \in 0..n /\ g[m] = IF m = 0 THEN s ELSE Save(g[m - 1], saves[m])
  BY <1>1 DEF Follows
<1>5. CASE m = 0
  BY <1>4, <1>5 DEF Result, Kept, NextId, Appended, EcSaves, PqSaves
<1>6. CASE m # 0
  <2>1. m - 1 \in Nat /\ m - 1 \notin T /\ m \in 1..Len(saves)
    BY <1>3, <1>4, <1>6
  <2>2. Result(s, saves, m - 1, g[m - 1])
    BY <1>4, <2>1
  <2> QED BY <1>4, <1>6, <2>1, <2>2, SaveResult
<1> QED BY <1>5, <1>6

\* The id of a key lies in the range, and those of a call are apart.
LEMMA PreKeyIds ==
    ASSUME PreKeysAssumption, NEW o \in Nat, NEW n \in 0..Batch
    PROVE  /\ PreKeyId(o, n) \in Nat \ {0} /\ PreKeyId(o, n) < MediumMax
           /\ \A m \in 0..Batch : PreKeyId(o, m) = PreKeyId(o, n) => m = n
<1> DEFINE M == MediumMax - 1
<1>1. M \in Nat /\ M > 0 /\ Batch < M
  BY DEF PreKeysAssumption
<1>2. Batch \in Nat
  BY DEF PreKeysAssumption
<1>3. PreKeyId(o, n) = ((o + n) % M) + 1
  BY DEF PreKeyId
<1>4. (o + n) % M \in 0..(M - 1)
  BY <1>1
<1>5. ASSUME NEW m \in 0..Batch, PreKeyId(o, m) = PreKeyId(o, n) PROVE m = n
  <2>1. (o + m) % M = (o + n) % M
    <3>1. (o + m) % M \in 0..(M - 1)
      BY <1>1
    <3>2. PreKeyId(o, m) = ((o + m) % M) + 1
      BY DEF PreKeyId
    <3> HIDE DEF M
    <3> QED BY <1>3, <1>4, <1>5, <3>1, <3>2
  <2> HIDE DEF M
  <2>2. /\ o + m \in Nat /\ o + n \in Nat
        /\ (o + n) - (o + m) < M /\ (o + m) - (o + n) < M
    BY <1>1, <1>2
  <2>3. CASE m < n
    <3>1. o + m < o + n
      BY <1>2, <2>3
    <3> QED BY <1>1, <2>1, <2>2, <3>1, ModApart
  <2>4. CASE n < m
    <3>1. o + n < o + m
      BY <1>2, <2>4
    <3> QED BY <1>1, <2>1, <2>2, <3>1, ModApart
  <2> QED BY <1>2, <2>3, <2>4
<1>6. MediumMax \in Nat
  BY DEF PreKeysAssumption
<1> QED BY <1>3, <1>4, <1>5, <1>6

\* The saves of a call, position by position.
SaveOf(slot, id, r) == [slot |-> slot, key |-> [id |-> id, round |-> r]]
LastPlace(use, count) == 2 * count + 1 + (IF use THEN 1 ELSE 0)

Shape(saves, s, use, count, r) ==
    /\ saves \in Seq(SaveType) /\ Len(saves) = LastPlace(use, count)
    /\ \A j \in 1..count : saves[j] = SaveOf("ec", PreKeyId(s.next.ec, j - 1), r)
    /\ \A j \in (count + 1)..(2 * count) :
          saves[j] = SaveOf("pq", PreKeyId(s.next.pq, j - count - 1), r)
    /\ saves[2 * count + 1] = SaveOf("signed", s.next.signed, r)
    /\ use => saves[2 * count + 2] = SaveOf("last", PreKeyId(s.next.pq, count), r)

\* What replenish_pre_keys saves, place by place.
LEMMA SavesShape ==
    ASSUME PreKeysAssumption, NEW s \in Store, NEW use \in BOOLEAN,
           NEW count \in 0..Batch, NEW r \in Nat,
           NEW saves, saves = Saves(s, use, count, r)
    PROVE  Shape(saves, s, use, count, r)
<1>1. s.next.ec \in Nat /\ s.next.pq \in Nat /\ s.next.signed \in Nat
  BY DEF Store
<1>2. count \in Nat /\ Batch \in Nat /\ count <= Batch
  BY DEF PreKeysAssumption
<1> DEFINE A == [n \in 1..count |-> SaveOf("ec", PreKeyId(s.next.ec, n - 1), r)]
           B == [n \in 1..count |-> SaveOf("pq", PreKeyId(s.next.pq, n - 1), r)]
           C == << SaveOf("signed", s.next.signed, r) >>
           D == IF use THEN << SaveOf("last", PreKeyId(s.next.pq, count), r) >> ELSE <<>>
<1>3. saves = ((A \o B) \o C) \o D
  BY Zenon DEF Saves, SaveOf
<1>4. \A n \in 0..count : PreKeyId(s.next.ec, n) \in Nat /\ PreKeyId(s.next.pq, n) \in Nat
  <2>1. ASSUME NEW n \in 0..count
        PROVE  PreKeyId(s.next.ec, n) \in Nat /\ PreKeyId(s.next.pq, n) \in Nat
    <3>1. n \in 0..Batch
      BY <1>2
    <3> QED BY <1>1, <3>1, PreKeyIds
  <2> QED BY <2>1
<1>5. A \in Seq(SaveType) /\ Len(A) = count /\ B \in Seq(SaveType) /\ Len(B) = count
  <2>1. \A n \in 1..count : n - 1 \in 0..count
    BY <1>2
  <2>2. \A n \in 1..count : /\ SaveOf("ec", PreKeyId(s.next.ec, n - 1), r) \in SaveType
                             /\ SaveOf("pq", PreKeyId(s.next.pq, n - 1), r) \in SaveType
    BY <1>4, <2>1 DEF SaveType, SaveOf, Key
  <2>3. A \in [1..count -> SaveType] /\ B \in [1..count -> SaveType]
    BY <2>2, Zenon
  <2> HIDE DEF A, B
  <2> QED BY <1>2, <2>3
<1>6. C \in Seq(SaveType) /\ Len(C) = 1 /\ C[1] = SaveOf("signed", s.next.signed, r)
  BY <1>1 DEF SaveType, SaveOf, Key
<1>7. /\ D \in Seq(SaveType) /\ Len(D) = IF use THEN 1 ELSE 0
      /\ use => D[1] = SaveOf("last", PreKeyId(s.next.pq, count), r)
  <2>1. count \in 0..count
    BY <1>2
  <2>2. SaveOf("last", PreKeyId(s.next.pq, count), r) \in SaveType
    BY <1>4, <2>1 DEF SaveType, SaveOf, Key
  <2> QED BY <2>2
<1>8. /\ \A j \in 1..count : A[j] = SaveOf("ec", PreKeyId(s.next.ec, j - 1), r)
      /\ \A j \in 1..count : B[j] = SaveOf("pq", PreKeyId(s.next.pq, j - 1), r)
  BY Zenon
<1> HIDE DEF A, B, C, D
<1> DEFINE n == IF use THEN 1 ELSE 0
<1>9. n \in Nat /\ LastPlace(use, count) = 2 * count + 1 + n /\ (use => n = 1)
  BY DEF LastPlace
<1>10. Len(D) = n
  BY <1>7
<1> HIDE DEF n
<1>11. PICK x : x = A \o B
  BY Zenon
<1>12. PICK y : y = x \o C
  OBVIOUS
<1>13. saves = y \o D
  BY <1>3, <1>11, <1>12
<1>14. /\ x \in Seq(SaveType) /\ Len(x) = count + count
       /\ \A j \in 1..count : x[j] = A[j]
       /\ \A j \in 1..count : x[count + j] = B[j]
  <2>1. /\ x \in Seq(SaveType) /\ Len(x) = Len(A) + Len(B)
        /\ \A j \in 1..(Len(A) + Len(B)) :
             x[j] = IF j <= Len(A) THEN A[j] ELSE B[j - Len(A)]
    BY <1>5, <1>11, ConcatProperties
  <2>2. ASSUME NEW j \in 1..count PROVE x[j] = A[j] /\ x[count + j] = B[j]
    <3>1. /\ j \in 1..(Len(A) + Len(B)) /\ j <= Len(A)
          /\ count + j \in 1..(Len(A) + Len(B)) /\ ~(count + j <= Len(A))
          /\ (count + j) - Len(A) = j
      BY <1>2, <1>5
    <3> QED BY <2>1, <3>1
  <2> QED BY <1>2, <1>5, <2>1, <2>2
<1>15. /\ y \in Seq(SaveType) /\ Len(y) = 2 * count + 1
       /\ \A j \in 1..(2 * count) : y[j] = x[j]
       /\ y[2 * count + 1] = C[1]
  <2>1. /\ y \in Seq(SaveType) /\ Len(y) = Len(x) + Len(C)
        /\ \A j \in 1..(Len(x) + Len(C)) :
             y[j] = IF j <= Len(x) THEN x[j] ELSE C[j - Len(x)]
    BY <1>6, <1>12, <1>14, ConcatProperties
  <2>2. Len(x) = 2 * count /\ Len(x) \in Nat /\ 2 * count + 1 \in 1..(Len(x) + Len(C))
        /\ ~(2 * count + 1 <= Len(x)) /\ (2 * count + 1) - Len(x) = 1
    BY <1>2, <1>6, <1>14
  <2>3. y[2 * count + 1] = C[(2 * count + 1) - Len(x)]
    BY <2>1, <2>2
  <2>4. ASSUME NEW j \in 1..(2 * count) PROVE y[j] = x[j]
    <3>1. j \in 1..(Len(x) + Len(C)) /\ j <= Len(x)
      BY <1>2, <1>6, <2>2
    <3> QED BY <2>1, <3>1
  <2>5. Len(y) = 2 * count + 1 /\ y \in Seq(SaveType)
    BY <1>2, <1>6, <2>1, <2>2
  <2>6. y[2 * count + 1] = C[1]
    BY <2>2, <2>3
  <2> QED BY <2>4, <2>5, <2>6
<1>16. /\ saves \in Seq(SaveType) /\ Len(saves) = 2 * count + 1 + n
       /\ \A j \in 1..(2 * count + 1) : saves[j] = y[j]
       /\ \A j \in 1..n : saves[2 * count + 1 + j] = D[j]
  <2>0. y \in Seq(SaveType) /\ D \in Seq(SaveType)
    BY <1>7, <1>15
  <2>1. /\ saves \in Seq(SaveType) /\ Len(saves) = Len(y) + Len(D)
        /\ \A j \in 1..(Len(y) + Len(D)) :
             saves[j] = IF j <= Len(y) THEN y[j] ELSE D[j - Len(y)]
    BY <1>13, <2>0, ConcatProperties
  <2> QED BY <1>2, <1>9, <1>10, <1>15, <2>1
<1>17. ASSUME NEW j \in 1..count
       PROVE  saves[j] = A[j] /\ saves[count + j] = B[j]
  <2>1. /\ j \in 1..(2 * count) /\ j \in 1..(2 * count + 1)
        /\ count + j \in 1..(2 * count) /\ count + j \in 1..(2 * count + 1)
    BY <1>2
  <2>2. saves[j] = x[j] /\ saves[count + j] = x[count + j]
    BY <1>15, <1>16, <2>1
  <2> QED BY <1>14, <2>2
<1>18. saves[2 * count + 1] = C[1]
  <2>1. 2 * count + 1 \in 1..(2 * count + 1)
    BY <1>2
  <2>2. saves[2 * count + 1] = y[2 * count + 1]
    BY <1>16, <2>1
  <2> QED BY <1>15, <2>2
<1>19. ASSUME NEW j \in (count + 1)..(2 * count)
       PROVE  saves[j] = SaveOf("pq", PreKeyId(s.next.pq, j - count - 1), r)
  <2>1. j - count \in 1..count /\ j = count + (j - count)
    BY <1>2
  <2> QED BY <1>8, <1>17, <2>1
<1>20. use => saves[2 * count + 2] = D[1]
  <2>1. use => 1 \in 1..n /\ 2 * count + 2 = 2 * count + 1 + 1
    BY <1>2, <1>9
  <2>2. \A j \in 1..n : saves[2 * count + 1 + j] = D[j]
    BY <1>16
  <2> QED BY <2>1, <2>2
<1> QED BY <1>6, <1>7, <1>8, <1>9, <1>16, <1>17, <1>18, <1>19, <1>20 DEF Shape

\* Which save is at which place.
Place(saves, s, use, count, r, j) ==
    /\ j \in Nat
    /\ saves[j].slot \in {"ec", "pq", "signed", "last"}
    /\ saves[j].key = [id |-> saves[j].key.id, round |-> r]
    /\ saves[j].slot = "ec" <=> j \in 1..count
    /\ saves[j].slot = "pq" <=> j \in (count + 1)..(2 * count)
    /\ saves[j].slot = "signed" <=> j = 2 * count + 1
    /\ saves[j].slot = "last" <=> use /\ j = 2 * count + 2
    /\ saves[j].slot = "ec" => saves[j].key.id = PreKeyId(s.next.ec, j - 1)
    /\ saves[j].slot = "pq" => saves[j].key.id = PreKeyId(s.next.pq, j - count - 1)
    /\ saves[j].slot = "last" => saves[j].key.id = PreKeyId(s.next.pq, count)

\* What each place holds: the ids of a kind run on from its next id.
LEMMA SavesPlaces ==
    ASSUME PreKeysAssumption, NEW s \in Store, NEW use \in BOOLEAN,
           NEW count \in 0..Batch, NEW r \in Nat,
           NEW saves, Shape(saves, s, use, count, r), NEW j \in DOMAIN saves
    PROVE  Place(saves, s, use, count, r, j)
<1> USE DEF Place
<1>1. /\ saves \in Seq(SaveType) /\ Len(saves) = LastPlace(use, count)
      /\ \A k \in 1..count : saves[k] = SaveOf("ec", PreKeyId(s.next.ec, k - 1), r)
      /\ \A k \in (count + 1)..(2 * count) :
            saves[k] = SaveOf("pq", PreKeyId(s.next.pq, k - count - 1), r)
      /\ saves[2 * count + 1] = SaveOf("signed", s.next.signed, r)
      /\ use => saves[2 * count + 2] = SaveOf("last", PreKeyId(s.next.pq, count), r)
  BY DEF Shape
<1>2. count \in Nat /\ j \in 1..LastPlace(use, count)
  BY <1>1 DEF PreKeysAssumption
<1>3. \/ j \in 1..count
      \/ j \in (count + 1)..(2 * count)
      \/ j = 2 * count + 1
      \/ use /\ j = 2 * count + 2
  BY <1>2 DEF LastPlace
<1>4. CASE j \in 1..count
  <2>1. saves[j] = SaveOf("ec", PreKeyId(s.next.ec, j - 1), r)
    BY <1>1, <1>4
  <2> QED BY <1>2, <1>4, <2>1 DEF SaveOf
<1>5. CASE j \in (count + 1)..(2 * count)
  <2>1. saves[j] = SaveOf("pq", PreKeyId(s.next.pq, j - count - 1), r)
    BY <1>1, <1>5
  <2> QED BY <1>2, <1>5, <2>1 DEF SaveOf
<1>6. CASE j = 2 * count + 1
  <2>1. saves[j] = SaveOf("signed", s.next.signed, r)
    BY <1>1, <1>6
  <2> QED BY <1>2, <1>6, <2>1 DEF SaveOf
<1>7. CASE use /\ j = 2 * count + 2
  <2>1. saves[j] = SaveOf("last", PreKeyId(s.next.pq, count), r)
    BY <1>1, <1>7
  <2>2. j > 2 * count + 1
    BY <1>2, <1>7
  <2> QED BY <1>2, <1>7, <2>1, <2>2 DEF SaveOf
<1> QED BY <1>3, <1>4, <1>5, <1>6, <1>7

\* No two keys of one call have the same id.
LEMMA SavesDistinct ==
    ASSUME PreKeysAssumption, NEW s \in Store, NEW use \in BOOLEAN,
           NEW count \in 0..Batch, NEW r \in Nat,
           NEW saves, Shape(saves, s, use, count, r)
    PROVE  Distinct(saves)
<1> SUFFICES ASSUME NEW j \in DOMAIN saves, NEW k \in DOMAIN saves,
                    \/ saves[j].slot = "ec" /\ saves[k].slot = "ec"
                       /\ saves[j].key.id = saves[k].key.id
                    \/ /\ saves[j].slot \in {"pq", "last"} /\ saves[k].slot \in {"pq", "last"}
                       /\ saves[j].key.id = saves[k].key.id
                    \/ saves[j].slot = "signed" /\ saves[k].slot = "signed"
                    \/ saves[j].slot = "last" /\ saves[k].slot = "last"
             PROVE  j = k
  BY DEF Distinct
<1>1. count \in Nat /\ Batch \in Nat /\ count <= Batch
  BY DEF PreKeysAssumption
<1>2. s.next.ec \in Nat /\ s.next.pq \in Nat
  BY DEF Store
<1>3. Place(saves, s, use, count, r, j)
  BY SavesPlaces
<1>4. Place(saves, s, use, count, r, k)
  BY SavesPlaces
<1> USE DEF Place
<1>5. CASE saves[j].slot = "signed" /\ saves[k].slot = "signed"
  BY <1>1, <1>3, <1>4, <1>5
<1>6. CASE saves[j].slot = "ec" /\ saves[k].slot = "ec" /\ saves[j].key.id = saves[k].key.id
  <2>1. j - 1 \in 0..Batch /\ k - 1 \in 0..Batch
    BY <1>1, <1>3, <1>4, <1>6
  <2>2. PreKeyId(s.next.ec, j - 1) = PreKeyId(s.next.ec, k - 1)
    BY <1>3, <1>4, <1>6
  <2>3. j - 1 = k - 1
    BY <1>2, <2>1, <2>2, PreKeyIds
  <2> QED BY <1>3, <1>4, <2>3
<1>7. CASE saves[j].slot \in {"pq", "last"} /\ saves[k].slot \in {"pq", "last"}
           /\ saves[j].key.id = saves[k].key.id
  <2> DEFINE n(l) == IF saves[l].slot = "pq" THEN l - count - 1 ELSE count
  <2>1. n(j) \in 0..Batch /\ n(k) \in 0..Batch
    BY <1>1, <1>3, <1>4, <1>7
  <2>2. PreKeyId(s.next.pq, n(j)) = PreKeyId(s.next.pq, n(k))
    BY <1>3, <1>4, <1>7
  <2>3. n(j) = n(k)
    <3> HIDE DEF n
    <3> QED BY <1>2, <2>1, <2>2, PreKeyIds
  <2> QED BY <1>1, <1>3, <1>4, <1>7, <2>3
<1>8. CASE saves[j].slot = "last" /\ saves[k].slot = "last"
  BY <1>3, <1>4, <1>8
<1> QED BY <1>5, <1>6, <1>7, <1>8

\* The keys of each sort a call makes.
MadeKeys(saves, use, count) ==
    /\ Made(saves, "ec") = {saves[j].key : j \in 1..count}
    /\ Made(saves, "pq") = {saves[j].key : j \in (count + 1)..(2 * count)}
    /\ One(Made(saves, "signed")) = saves[2 * count + 1].key
    /\ use => One(Made(saves, "last")) = saves[2 * count + 2].key
    /\ ~use => One(Made(saves, "last")) = None
    /\ \A j \in DOMAIN saves : saves[j].key \in Key
    /\ DOMAIN saves = 1..LastPlace(use, count)

\* The key sets that are made from the saves.
LEMMA SavesMade ==
    ASSUME PreKeysAssumption, NEW s \in Store, NEW use \in BOOLEAN,
           NEW count \in 0..Batch, NEW r \in Nat,
           NEW saves, Shape(saves, s, use, count, r)
    PROVE  MadeKeys(saves, use, count)
<1>1. /\ saves \in Seq(SaveType) /\ DOMAIN saves = 1..LastPlace(use, count)
      /\ Len(saves) = LastPlace(use, count)
  BY DEF Shape
<1>2. count \in Nat
  BY DEF PreKeysAssumption
<1>3. /\ 1..count \subseteq DOMAIN saves /\ (count + 1)..(2 * count) \subseteq DOMAIN saves
      /\ 2 * count + 1 \in DOMAIN saves /\ (use => 2 * count + 2 \in DOMAIN saves)
  BY <1>1, <1>2 DEF LastPlace
<1>4. \A j \in DOMAIN saves :
         /\ saves[j].slot = "ec" <=> j \in 1..count
         /\ saves[j].slot = "pq" <=> j \in (count + 1)..(2 * count)
         /\ saves[j].slot = "signed" <=> j = 2 * count + 1
         /\ saves[j].slot = "last" <=> use /\ j = 2 * count + 2
  <2>1. \A j \in DOMAIN saves : Place(saves, s, use, count, r, j)
    BY SavesPlaces
  <2> QED BY <2>1 DEF Place
<1>5. \A slot, x : x \in Made(saves, slot) <=>
                       \E j \in DOMAIN saves : saves[j].slot = slot /\ x = saves[j].key
  BY DEF Made, Range
<1>6. Made(saves, "ec") = {saves[j].key : j \in 1..count}
  BY <1>3, <1>4, <1>5
<1>7. Made(saves, "pq") = {saves[j].key : j \in (count + 1)..(2 * count)}
  BY <1>3, <1>4, <1>5
<1>8. Made(saves, "signed") = {saves[2 * count + 1].key}
  BY <1>3, <1>4, <1>5
<1>9. Made(saves, "last") = IF use THEN {saves[2 * count + 2].key} ELSE {}
  BY <1>3, <1>4, <1>5
<1>10. \A j \in DOMAIN saves : saves[j].key \in Key
  <2>1. \A j \in DOMAIN saves : saves[j] \in SaveType
    BY <1>1
  <2> QED BY <2>1 DEF SaveType
<1>11. \A x : One({x}) = x /\ One({}) = None
  BY DEF One
<1> QED BY <1>1, <1>6, <1>7, <1>8, <1>9, <1>10, <1>11 DEF MadeKeys

Counted(saves, count) ==
    Cardinality(Made(saves, "ec")) = count /\ Cardinality(Made(saves, "pq")) = count

\* A call that was to make a batch makes a batch of each kind.
LEMMA SavesCounted ==
    ASSUME PreKeysAssumption, NEW s \in Store, NEW use \in BOOLEAN,
           NEW count \in 0..Batch, NEW r \in Nat,
           NEW saves, Shape(saves, s, use, count, r)
    PROVE  Counted(saves, count)
<1>1. /\ Made(saves, "ec") = {saves[j].key : j \in 1..count}
      /\ Made(saves, "pq") = {saves[j].key : j \in (count + 1)..(2 * count)}
      /\ DOMAIN saves = 1..LastPlace(use, count)
  <2>1. MadeKeys(saves, use, count)
    BY SavesMade
  <2> QED BY <2>1 DEF MadeKeys
<1>2. count \in Nat
  BY DEF PreKeysAssumption
<1>3. \A j \in DOMAIN saves :
         /\ saves[j].slot = "ec" <=> j \in 1..count
         /\ saves[j].slot = "pq" <=> j \in (count + 1)..(2 * count)
  <2>1. \A j \in DOMAIN saves : Place(saves, s, use, count, r, j)
    BY SavesPlaces
  <2> QED BY <2>1 DEF Place
<1>4. Distinct(saves)
  BY SavesDistinct
<1>5. Cardinality(Made(saves, "ec")) = count
  <2> DEFINE f == [j \in 1..count |-> saves[j].key]
  <2>1. \A j \in 1..count : j \in DOMAIN saves /\ saves[j].slot = "ec"
    BY <1>1, <1>2, <1>3 DEF LastPlace
  <2>2. f \in [1..count -> Made(saves, "ec")]
    BY <1>1
  <2>3. \A a, b \in 1..count : f[a] = f[b] => a = b
    BY <1>4, <2>1 DEF Distinct
  <2>4. \A t \in Made(saves, "ec") : \E a \in 1..count : f[a] = t
    BY <1>1
  <2> HIDE DEF f
  <2>5. f \in Bijection(1..count, Made(saves, "ec"))
    BY <2>2, <2>3, <2>4, Fun_IsBij
  <2> QED BY <1>2, <2>5, FS_CountingElements DEF ExistsBijection
<1>6. Cardinality(Made(saves, "pq")) = count
  <2> DEFINE f == [j \in 1..count |-> saves[count + j].key]
  <2>1. \A j \in 1..count : /\ count + j \in DOMAIN saves /\ saves[count + j].slot = "pq"
                            /\ count + j \in (count + 1)..(2 * count)
    BY <1>1, <1>2, <1>3 DEF LastPlace
  <2>2. f \in [1..count -> Made(saves, "pq")]
    BY <1>1, <2>1
  <2>3. ASSUME NEW a \in 1..count, NEW b \in 1..count, f[a] = f[b] PROVE a = b
    <3>1. count + a = count + b
      BY <1>4, <2>1, <2>3 DEF Distinct
    <3> QED BY <1>2, <3>1
  <2>4. ASSUME NEW t \in Made(saves, "pq") PROVE \E a \in 1..count : f[a] = t
    <3>1. PICK j \in (count + 1)..(2 * count) : t = saves[j].key
      BY <1>1
    <3>2. j - count \in 1..count /\ count + (j - count) = j
      BY <1>2
    <3> QED BY <3>1, <3>2
  <2> HIDE DEF f
  <2>5. f \in Bijection(1..count, Made(saves, "pq"))
    BY <2>2, <2>3, <2>4, Fun_IsBij
  <2> QED BY <1>2, <2>5, FS_CountingElements DEF ExistsBijection
<1> QED BY <1>5, <1>6 DEF Counted

\* A call that saves everything, and what it gives its caller.
Ends(s, saves, use, count, b) ==
    /\ b.signed = Append(s.signed, saves[2 * count + 1].key)
    /\ use => b.last = Append(s.last, saves[2 * count + 2].key)
    /\ ~use => b.last = s.last

\* A replenishment that saved all leaves its keys, and repeated-use keys last.
LEMMA CallEnds ==
    ASSUME PreKeysAssumption, NEW s \in Store, NEW use \in BOOLEAN,
           NEW count \in 0..Batch, NEW r \in Nat,
           NEW saves, Shape(saves, s, use, count, r),
           NEW b, Result(s, saves, Len(saves), b)
    PROVE  Ends(s, saves, use, count, b)
<1>1. count \in Nat
  BY DEF PreKeysAssumption
<1>2. saves \in Seq(SaveType) /\ Len(saves) = LastPlace(use, count)
      /\ DOMAIN saves = 1..Len(saves)
  BY DEF Shape
<1>3. \A j \in 1..Len(saves) : /\ saves[j].slot = "signed" <=> j = 2 * count + 1
                               /\ saves[j].slot = "last" <=> use /\ j = 2 * count + 2
  <2>1. \A j \in 1..Len(saves) : Place(saves, s, use, count, r, j)
    BY <1>2, SavesPlaces
  <2> QED BY <2>1 DEF Place
<1>4. 2 * count + 1 \in 1..Len(saves) /\ (use => 2 * count + 2 \in 1..Len(saves))
  BY <1>1, <1>2 DEF LastPlace
<1>5. /\ Appended(s.signed, b.signed, saves, Len(saves), "signed")
      /\ Appended(s.last, b.last, saves, Len(saves), "last")
  BY DEF Result
<1> QED BY <1>3, <1>4, <1>5 DEF Appended, Ends

\* A link or a registration takes its signed and last resort keys from its saves.
LEMMA ActivatedKeys ==
    ASSUME PreKeysAssumption, NEW s \in Store, NEW count \in 0..Batch, NEW r \in Nat,
           NEW saves, Shape(saves, s, TRUE, count, r)
    PROVE  /\ Activated(s, saves) \in KeySet
           /\ Activated(s, saves).signed = saves[2 * count + 1].key
           /\ Activated(s, saves).last = saves[2 * count + 2].key
<1>1. count \in Nat /\ {} \in SUBSET Key
  BY DEF PreKeysAssumption
<1>2. /\ One(Made(saves, "signed")) = saves[2 * count + 1].key
      /\ One(Made(saves, "last")) = saves[2 * count + 2].key
      /\ \A j \in DOMAIN saves : saves[j].key \in Key
      /\ DOMAIN saves = 1..LastPlace(TRUE, count)
  <2>1. MadeKeys(saves, TRUE, count)
    BY SavesMade
  <2> QED BY <2>1 DEF MadeKeys
<1>3. 2 * count + 1 \in DOMAIN saves /\ 2 * count + 2 \in DOMAIN saves
  BY <1>1, <1>2 DEF LastPlace
<1> QED BY <1>1, <1>2, <1>3 DEF Activated, KeySet

ToPublish(s, saves, use, k) ==
    /\ k \in KeySet /\ k.ec = Made(saves, "ec") /\ k.pq = Made(saves, "pq")
    /\ k.signed = saves[2 * Batch + 1].key
    /\ use => k.last = saves[2 * Batch + 2].key
    /\ ~use => k.last = s.last[1] /\ 1 \in 1..Len(s.last)

\* A refresh publishes the batches it made and the keys of repeated use.
LEMMA PublishedKeys ==
    ASSUME PreKeysAssumption, NoneAssumption, NEW s \in Store, NEW r \in Nat, NEW use \in BOOLEAN,
           use = (s.last = <<>>),
           NEW saves, Shape(saves, s, use, Batch, r)
    PROVE  ToPublish(s, saves, use, Published(s, saves))
<1> USE DEF ToPublish
<1>1. Batch \in Nat /\ Batch \in 0..Batch
  BY DEF PreKeysAssumption
<1>2. /\ Made(saves, "ec") = {saves[j].key : j \in 1..Batch}
      /\ Made(saves, "pq") = {saves[j].key : j \in (Batch + 1)..(2 * Batch)}
      /\ One(Made(saves, "signed")) = saves[2 * Batch + 1].key
      /\ use => One(Made(saves, "last")) = saves[2 * Batch + 2].key
      /\ \A j \in DOMAIN saves : saves[j].key \in Key
      /\ DOMAIN saves = 1..LastPlace(use, Batch)
  <2>1. MadeKeys(saves, use, Batch)
    BY <1>1, SavesMade
  <2> QED BY <2>1 DEF MadeKeys
<1>3. /\ 2 * Batch + 1 \in DOMAIN saves /\ (use => 2 * Batch + 2 \in DOMAIN saves)
      /\ 1..Batch \subseteq DOMAIN saves /\ (Batch + 1)..(2 * Batch) \subseteq DOMAIN saves
  BY <1>1, <1>2 DEF LastPlace
<1>4. Made(saves, "ec") \subseteq Key /\ Made(saves, "pq") \subseteq Key
  BY <1>2, <1>3
<1>5. s.last \in Seq(Key)
  BY DEF Store
<1>6. CASE use
  BY <1>2, <1>3, <1>4, <1>6 DEF Published, KeySet
<1>7. CASE ~use
  <2>1. Len(s.last) \in Nat \ {0} /\ Head(s.last) = s.last[1] /\ s.last[1] \in Key
    <3>1. s.last # <<>>
      BY <1>7
    <3>2. Len(s.last) \in Nat \ {0}
      BY <1>5, <3>1, EmptySeq
    <3> QED BY <1>5, <3>1, <3>2, HeadTailProperties
  <2>2. 1 \in 1..Len(s.last)
    BY <2>1
  <2> QED BY <1>2, <1>3, <1>4, <1>7, <2>1, <2>2 DEF Published, KeySet
<1> QED BY <1>6, <1>7

\* What a refresh has made is what its store now says is current, and enough.
Current(s, b) == /\ Same(s, b) /\ Enough(b)
                 /\ SignedPreKey(s) # None /\ LastResort(s) # None

\* What a refresh publishes is what its store has by then.
LEMMA PublishedCurrent ==
    ASSUME PreKeysAssumption, NoneAssumption, NEW s \in Store, NEW r \in Nat, NEW use \in BOOLEAN,
           use = (s.last = <<>>),
           NEW saves, Shape(saves, s, use, Batch, r),
           NEW b, Result(s, saves, Len(saves), b)
    PROVE  Current(b, Published(s, saves))
<1> DEFINE k == Published(s, saves)
<1>1. /\ k \in KeySet /\ k.ec = Made(saves, "ec") /\ k.pq = Made(saves, "pq")
      /\ k.signed = saves[2 * Batch + 1].key
      /\ use => k.last = saves[2 * Batch + 2].key
      /\ ~use => k.last = s.last[1] /\ 1 \in 1..Len(s.last)
  <2>1. ToPublish(s, saves, use, k)
    BY PublishedKeys
  <2> HIDE DEF k
  <2> QED BY <2>1 DEF ToPublish
<1> HIDE DEF k
<1>2. Batch \in Nat /\ Batch \in 0..Batch /\ Minimum \in Nat /\ Minimum <= Batch
  BY DEF PreKeysAssumption
<1>3. Cardinality(k.ec) = Batch /\ Cardinality(k.pq) = Batch
  <2>1. Counted(saves, Batch)
    BY <1>2, SavesCounted
  <2> QED BY <1>1, <2>1 DEF Counted
<1>4. /\ b.signed = Append(s.signed, saves[2 * Batch + 1].key)
      /\ use => b.last = Append(s.last, saves[2 * Batch + 2].key)
      /\ ~use => b.last = s.last
  <2>1. Ends(s, saves, use, Batch, b)
    BY <1>2, CallEnds
  <2> QED BY <2>1 DEF Ends
<1>5. s.signed \in Seq(Key) /\ s.last \in Seq(Key) /\ k.signed \in Key /\ k.last \in Key \cup {None}
  BY <1>1 DEF Store, KeySet
<1>6. SignedPreKey(b) = k.signed
  <2>1. b.signed = Append(s.signed, k.signed)
    BY <1>1, <1>4
  <2>2. b.signed # <<>> /\ b.signed[Len(b.signed)] = k.signed
    BY <1>5, <2>1, AppendProperties
  <2> QED BY <2>2 DEF SignedPreKey, Last
<1>7. LastResort(b) = k.last /\ k.last \in Key
  <2>1. CASE use
    <3>0. k.last \in Key
      <4>1. /\ \A j \in DOMAIN saves : saves[j].key \in Key
            /\ DOMAIN saves = 1..LastPlace(use, Batch)
        <5>1. MadeKeys(saves, use, Batch)
          BY <1>2, SavesMade
        <5> QED BY <5>1 DEF MadeKeys
      <4>2. 2 * Batch + 2 \in DOMAIN saves
        BY <1>2, <2>1, <4>1 DEF LastPlace
      <4> QED BY <1>1, <2>1, <4>1, <4>2
    <3>1. b.last = Append(<<>>, k.last)
      BY <1>1, <1>4, <2>1
    <3>2. b.last = << k.last >>
      BY <3>0, <3>1
    <3> QED BY <3>0, <3>2 DEF LastResort
  <2>2. CASE ~use
    <3>1. b.last = s.last /\ s.last # <<>> /\ k.last = s.last[1] /\ s.last[1] \in Key
      BY <1>1, <1>4, <1>5, <2>2
    <3> QED BY <1>5, <3>1 DEF LastResort
  <2> QED BY <2>1, <2>2
<1>8. k.signed # None /\ k.last # None
  BY <1>5, <1>7 DEF NoneAssumption
<1>9. Enough(k)
  BY <1>2, <1>3 DEF Enough
<1>10. Current(b, k)
  BY <1>6, <1>7, <1>8, <1>9 DEF Current, Same
<1> QED BY <1>10 DEF k

-----------------------------------------------------------------------------
(* The invariant: calls, uploads and what the server has *)

Types ==
    /\ store \in [Identities -> Store]
    /\ bundle \in [Devices -> [Identities -> KeySet \cup {None}]]
    /\ me \in Devices \cup {None}
    /\ round \in Nat
    /\ refreshed \in [Identities -> {"unknown", "uploaded", "sufficient"}]
    /\ ended = [a \in Links |-> ended[a]]
    /\ told \in Seq({"Url", "Registration"} \X Links)

JobFields(kind) ==
    {"pc", "kind", "dev", "left", "use", "count", "round", "keys"} \cup
        (IF kind = "refresh" THEN {"enough"} ELSE IF kind = "link" THEN {"message"} ELSE {})

\* How far a call is: the stores it has yet to fill and the keys it has made.
RefreshStage ==
    /\ job.dev = me /\ me # None /\ job.count = Batch
    /\ \E i \in Identities :
         \/ /\ job.pc \in {"status", "check", "replenish"}
            /\ job.left = <<i>> /\ job.keys \in [{} -> KeySet] /\ job.enough \in BOOLEAN
         \/ /\ job.pc \in {"upload", "answer"}
            /\ job.left = <<>> /\ job.keys \in [{i} -> KeySet]
ActivateStage ==
    /\ me = None /\ job.count = 0
    /\ \/ /\ job.pc \in {"url", "message", "replenish"}
          /\ job.left = <<"aci", "pni">> /\ job.keys \in [{} -> KeySet]
       \/ job.pc = "replenish" /\ job.left = <<"pni">> /\ job.keys \in [{"aci"} -> KeySet]
       \/ /\ job.pc \in {"upload", "answer"}
          /\ job.left = <<>> /\ job.keys \in [Identities -> KeySet]

\* A call under way is the latest; a link has made no device before it asks for
\* one, and shows its URL before it goes on.
Running ==
    /\ job.kind \in {"refresh", "link", "register"}
    /\ job = [f \in JobFields(job.kind) |-> job[f]]
    /\ job.round = round /\ round > 0 /\ job.use = TRUE
    /\ job.kind = "refresh" => RefreshStage
    /\ job.kind # "refresh" => ActivateStage
    /\ job.kind = "link" =>
          /\ job.dev \in Links /\ ended[job.dev] = "no"
          /\ job.pc # "url" => <<"Url", job.dev>> \in Range(told)
    /\ job.kind = "register" => job.dev = 0 /\ job.pc \notin {"url", "message"}
JobOK == job = Idle \/ Running

\* A request is told by the call it is of; it is the one its caller waits for, or
\* its caller gave up.
WireOK ==
    /\ \A r \in wire :
         /\ r.kind \in {"refresh", "link", "register"}
         /\ r.round \in 1..round
         /\ r.kind = "refresh" => r.dev = me /\ me # None
                                  /\ \E i \in Identities : r.keys \in [{i} -> KeySet]
         /\ r.kind # "refresh" => r.keys \in [Identities -> KeySet]
         /\ r.round = job.round => /\ job.pc = "answer" /\ job.kind = r.kind
                                   /\ job.dev = r.dev /\ job.keys = r.keys
         /\ r.kind = "link" => /\ r.dev \in Links /\ bundle[r.dev] = NoBundles
                               /\ ended[r.dev] = "unanswered" \/ r.round = job.round
    /\ \A r, q \in wire : r.round = q.round \/ (r.kind = "link" /\ q.kind = "link" /\ r.dev = q.dev)
                             => r = q

\* Which devices the server has keys of.
ServedOK ==
    /\ me # None => \A i \in Identities : bundle[me][i] # None
    /\ me \in Links => ended[me] = "linked"
    /\ \A a \in Links : bundle[a] # NoBundles =>
          \/ ended[a] \in {"linked", "unanswered"}
          \/ job.pc = "answer" /\ job.kind = "link" /\ job.dev = a

\* After a refresh that succeeded, and in one that has made its keys, the
\* repeated-use keys at the server are, or will be, those of the store, and there
\* are enough of the others.
RefreshOK ==
    /\ \A i \in Identities : refreshed[i] = "uploaded" =>
          /\ me # None /\ Current(store[i], bundle[me][i])
          /\ job.pc = "check" /\ job.kind = "refresh" /\ job.left = <<i>> => job.enough
          /\ ~(job.pc = "replenish" /\ job.kind = "refresh" /\ job.left = <<i>>)
    /\ job.pc \in {"upload", "answer"} /\ job.kind = "refresh" =>
          \A i \in DOMAIN job.keys : Current(store[i], job.keys[i])

CallInv == Types /\ JobOK /\ WireOK /\ ServedOK /\ RefreshOK /\ LinkIsTrue

\* A call is idle or under way.
LEMMA JobRuns ==
    ASSUME JobOK, job.pc # "idle"
    PROVE  Running
BY DEF JobOK, Idle

\* An idle call has no locals.
LEMMA JobIdle ==
    ASSUME JobOK, job.pc = "idle"
    PROVE  job = Idle
BY DEF JobOK, Running, RefreshStage, ActivateStage

\* What the invariant speaks of does not change.
LEMMA CallFrame ==
    ASSUME CallInv, UNCHANGED <<store, bundle, wire, job, me, refreshed, round, told, ended>>
    PROVE  CallInv'
<1>1. Types'
  BY DEF CallInv, Types
<1>2. JobOK'
  BY DEF CallInv, JobOK, Running, RefreshStage, ActivateStage
<1>3. WireOK'
  BY DEF CallInv, WireOK
<1>4. ServedOK'
  BY DEF CallInv, ServedOK
<1>5. RefreshOK'
  BY DEF CallInv, RefreshOK, Current, Same, SignedPreKey, LastResort, Enough
<1>6. LinkIsTrue'
  BY DEF CallInv, LinkIsTrue
<1> QED BY <1>1, <1>2, <1>3, <1>4, <1>5, <1>6 DEF CallInv

\* update_pre_key_bundle begins.
LEMMA StartRefreshStep ==
    ASSUME PreKeysAssumption, NoneAssumption, CallInv, NEW i \in Identities,
           StartRefresh(i, TRUE), UNCHANGED linkVars
    PROVE  CallInv'
<1>1. /\ job = Idle /\ me # None /\ round' = round + 1 /\ round \in Nat
      /\ job' = [pc |-> "status", kind |-> "refresh", dev |-> me, left |-> <<i>>,
                 use |-> TRUE, count |-> Batch, round |-> round + 1,
                 enough |-> FALSE, keys |-> [x \in {} |-> None]]
      /\ UNCHANGED <<store, bundle, wire, me, refreshed, told, ended>>
  BY JobIdle DEF StartRefresh, CallInv, linkVars, Types
<1>2. Types'
  BY <1>1 DEF CallInv, Types
<1>3. JobOK'
  <2>1. [x \in {} |-> None] \in [{} -> KeySet]
    OBVIOUS
  <2>2. job' = [f \in JobFields("refresh") |-> job'[f]]
    BY <1>1 DEF JobFields
  <2>3. RefreshStage'
    BY <1>1, <2>1 DEF RefreshStage
  <2> QED BY <1>1, <2>2, <2>3 DEF JobOK, Running
<1>4. WireOK'
  BY <1>1 DEF CallInv, WireOK, Idle
<1>5. ServedOK'
  BY <1>1 DEF CallInv, ServedOK, Idle
<1>6. RefreshOK'
  BY <1>1 DEF CallInv, RefreshOK, Current, Same, SignedPreKey, LastResort, Enough
<1>7. LinkIsTrue'
  BY <1>1 DEF CallInv, LinkIsTrue
<1> QED BY <1>2, <1>3, <1>4, <1>5, <1>6, <1>7 DEF CallInv

\* The server tells how many keys it has.
LEMMA StatusStep ==
    ASSUME PreKeysAssumption, NoneAssumption, CallInv, Status, UNCHANGED linkVars
    PROVE  CallInv'
<1>1. PICK i \in Identities :
        /\ Running /\ job.kind = "refresh" /\ job.left = <<i>> /\ Head(job.left) = i
        /\ job.pc = "status" /\ job.keys \in [{} -> KeySet] /\ job.enough \in BOOLEAN
        /\ job.dev = me /\ me # None /\ job.count = Batch
  <2>1. Running /\ job.pc = "status"
    BY JobRuns DEF Status, CallInv
  <2> QED BY <2>1 DEF Running, RefreshStage, ActivateStage
<1>2. UNCHANGED <<store, bundle, wire, me, round, told, ended>>
  BY DEF Status, linkVars
<1>3. \/ /\ job' = [job EXCEPT !.pc = "check", !.enough = Enough(bundle[me][i])]
         /\ UNCHANGED refreshed
      \/ /\ job' = [job EXCEPT !.pc = "check"]
         /\ refreshed' = [refreshed EXCEPT ![i] = "unknown"]
      \/ job' = Idle /\ UNCHANGED refreshed
  BY <1>1 DEF Status, Fail
<1>4. Types'
  BY <1>2, <1>3 DEF CallInv, Types
<1>5. \/ job' = Idle
      \/ /\ job' = [f \in JobFields("refresh") |-> job'[f]]
         /\ job'.kind = "refresh" /\ job'.pc = "check" /\ job'.left = <<i>>
         /\ job'.keys = job.keys /\ job'.dev = me /\ job'.count = Batch
         /\ job'.round = round /\ round > 0 /\ job'.use = TRUE
         /\ job'.enough \in BOOLEAN
         /\ refreshed'[i] = "uploaded" => job'.enough = Enough(bundle[me][i])
  <2>1. job = [f \in JobFields("refresh") |-> job[f]] /\ job.round = round /\ round > 0 /\ job.use = TRUE
    BY <1>1 DEF Running
  <2>2. Enough(bundle[me][i]) \in BOOLEAN
    BY DEF Enough
  <2>3. refreshed \in [Identities -> {"unknown", "uploaded", "sufficient"}]
    BY DEF CallInv, Types
  <2> QED BY <1>1, <1>3, <2>1, <2>2, <2>3 DEF JobFields
<1>6. JobOK'
  <2>1. CASE job' # Idle
    <3>1. RefreshStage'
      BY <1>1, <1>2, <1>5, <2>1 DEF RefreshStage
    <3> QED BY <1>2, <1>5, <2>1, <3>1 DEF JobOK, Running
  <2> QED BY <2>1 DEF JobOK
<1>7. WireOK'
  BY <1>1, <1>2, <1>5 DEF CallInv, WireOK, Idle, Running
<1>8. ServedOK'
  BY <1>1, <1>2, <1>5 DEF CallInv, ServedOK
<1>9. RefreshOK'
  <2>1. \A x \in Identities : refreshed'[x] = "uploaded" => refreshed[x] = "uploaded"
    BY <1>3 DEF CallInv, Types
  <2>2. \A x \in Identities : refreshed[x] = "uploaded" => Current(store[x], bundle[me][x])
    BY DEF CallInv, RefreshOK
  <2>3. \A x \in Identities : Current(store[x], bundle[me][x])' <=> Current(store[x], bundle[me][x])
    BY <1>2 DEF Current, Same, SignedPreKey, LastResort, Enough
  <2>4. job'.pc \notin {"replenish", "upload", "answer"}
    BY <1>5 DEF Idle
  <2>5. job'.pc = "check" => job'.left = <<i>> /\ (refreshed'[i] = "uploaded" => job'.enough)
    BY <1>1, <1>5, <2>1, <2>2 DEF Idle, Current
  <2> QED BY <1>1, <1>2, <2>1, <2>2, <2>3, <2>4, <2>5 DEF RefreshOK
<1>10. LinkIsTrue'
  BY <1>2 DEF CallInv, LinkIsTrue
<1> QED BY <1>4, <1>6, <1>7, <1>8, <1>9, <1>10 DEF CallInv

\* A refresh or a registration ends; requests may have left the wire.
LEMMA ToIdle ==
    ASSUME PreKeysAssumption, NoneAssumption, CallInv,
           job.kind # "link", job' = Idle,
           UNCHANGED <<bundle, me, round, told, ended>>, wire' \subseteq wire,
           store' \in [Identities -> Store],
           refreshed' \in [Identities -> {"unknown", "uploaded", "sufficient"}],
           \A x \in Identities : refreshed'[x] = "uploaded" =>
                                     refreshed[x] = "uploaded" /\ store'[x] = store[x]
    PROVE  CallInv'
<1>1. Types'
  BY DEF CallInv, Types
<1>2. JobOK'
  BY DEF JobOK
<1>3. WireOK'
  <2>1. ASSUME NEW r \in wire, r.kind = "link" PROVE ended[r.dev] = "unanswered"
    BY <2>1 DEF CallInv, WireOK
  <2>2. \A r \in wire : r.round # 0
    BY DEF CallInv, WireOK, Types
  <2> QED BY <2>1, <2>2 DEF CallInv, WireOK, Idle
<1>4. ServedOK'
  BY DEF CallInv, ServedOK, Idle
<1>5. RefreshOK'
  <2>1. ASSUME NEW x \in Identities, refreshed'[x] = "uploaded"
        PROVE  Current(store[x], bundle[me][x])' <=> Current(store[x], bundle[me][x])
    BY <2>1 DEF Current, Same, SignedPreKey, LastResort, Enough
  <2> QED BY <2>1 DEF CallInv, RefreshOK, Idle
<1>6. LinkIsTrue'
  BY DEF CallInv, LinkIsTrue
<1> QED BY <1>1, <1>2, <1>3, <1>4, <1>5, <1>6 DEF CallInv

\* check_pre_keys compares the repeated-use keys.
LEMMA CheckStep ==
    ASSUME PreKeysAssumption, NoneAssumption, CallInv, Check, UNCHANGED linkVars
    PROVE  CallInv'
<1>1. PICK i \in Identities :
        /\ Running /\ job.kind = "refresh" /\ job.left = <<i>> /\ Head(job.left) = i
        /\ job.pc = "check" /\ job.keys \in [{} -> KeySet] /\ job.enough \in BOOLEAN
        /\ job.dev = me /\ me # None /\ job.count = Batch
  <2>1. Running /\ job.pc = "check"
    BY JobRuns DEF Check, CallInv
  <2> QED BY <2>1 DEF Running, RefreshStage, ActivateStage
<1>2. UNCHANGED <<store, bundle, wire, me, round, told, ended>>
  BY DEF Check, linkVars
<1>3. refreshed \in [Identities -> {"unknown", "uploaded", "sufficient"}]
  BY DEF CallInv, Types
<1>4. CASE job' = Idle
  <2>1. refreshed' = refreshed \/ refreshed' = [refreshed EXCEPT ![i] = "sufficient"]
    BY <1>1, <1>4 DEF Check, Fail
  <2>2. store' \in [Identities -> Store] /\ store' = store
    BY <1>2 DEF CallInv, Types
  <2> QED BY <1>1, <1>2, <1>3, <1>4, <2>1, <2>2, ToIdle
<1>5. CASE /\ job' = [job EXCEPT !.pc = "replenish"] /\ refreshed' = refreshed
           /\ ~(Current(store[i], bundle[me][i]) /\ job.enough)
  <2>1. /\ job' = [f \in JobFields("refresh") |-> job'[f]]
        /\ job'.kind = "refresh" /\ job'.pc = "replenish" /\ job'.left = <<i>>
        /\ job'.keys = job.keys /\ job'.dev = me /\ job'.count = Batch
        /\ job'.round = round /\ round > 0 /\ job'.use = TRUE /\ job'.enough = job.enough
    BY <1>1, <1>5 DEF Running, JobFields
  <2>2. Types'
    BY <1>2, <1>5 DEF CallInv, Types
  <2>3. JobOK'
    <3>1. RefreshStage'
      BY <1>1, <1>2, <2>1 DEF RefreshStage
    <3> QED BY <1>2, <2>1, <3>1 DEF JobOK, Running
  <2>4. WireOK'
    BY <1>1, <1>2, <2>1 DEF CallInv, WireOK, Running
  <2>5. ServedOK'
    BY <1>1, <1>2, <2>1 DEF CallInv, ServedOK
  <2>6. RefreshOK'
    <3>1. \A x \in Identities : Current(store[x], bundle[me][x])' <=> Current(store[x], bundle[me][x])
      BY <1>2 DEF Current, Same, SignedPreKey, LastResort, Enough
    <3>2. refreshed[i] # "uploaded"
      BY <1>1, <1>5 DEF CallInv, RefreshOK
    <3> QED BY <1>1, <1>2, <1>5, <2>1, <3>1, <3>2 DEF CallInv, RefreshOK
  <2>7. LinkIsTrue'
    BY <1>2 DEF CallInv, LinkIsTrue
  <2> QED BY <2>2, <2>3, <2>4, <2>5, <2>6, <2>7 DEF CallInv
<1> QED
  <2>1. ~(/\ SignedPreKey(store[i]) # None /\ LastResort(store[i]) # None
          /\ Same(store[i], bundle[me][i]) /\ job.enough)
        => ~(Current(store[i], bundle[me][i]) /\ job.enough)
    BY DEF Current
  <2> QED BY <1>1, <1>4, <1>5, <2>1 DEF Check, Fail

\* The call's request goes out.
LEMMA SendStep ==
    ASSUME PreKeysAssumption, NoneAssumption, CallInv, NEW code,
           job.pc = "upload", Send(Request(code)),
           UNCHANGED <<store, bundle, me, refreshed, round, told, ended>>
    PROVE  CallInv'
<1>1. Running
  BY JobRuns DEF CallInv
<1>2. /\ job' = [job EXCEPT !.pc = "answer"]
      /\ wire' = wire \cup {Request(code)}
  BY DEF Send
<1>3. /\ job' = [f \in JobFields(job.kind) |-> job'[f]]
      /\ job'.pc = "answer"
      /\ job'.kind = job.kind /\ job'.dev = job.dev /\ job'.left = job.left /\ job'.keys = job.keys
      /\ job'.count = job.count /\ job'.round = job.round /\ job'.use = job.use
  BY <1>1, <1>2 DEF Running, JobFields
<1>4. Types'
  BY DEF CallInv, Types
<1>5. JobOK'
  <2>1. job.kind = "refresh" => RefreshStage'
    BY <1>1, <1>3 DEF Running, RefreshStage
  <2>2. job.kind # "refresh" => ActivateStage'
    BY <1>1, <1>3 DEF Running, ActivateStage
  <2> QED BY <1>1, <1>3, <2>1, <2>2 DEF JobOK, Running
<1>6. WireOK'
  <2> DEFINE q == Request(code)
  <2>1. q.kind = job.kind /\ q.dev = job.dev /\ q.round = job.round /\ q.keys = job.keys
    BY DEF Request
  <2> HIDE DEF q
  <2>2. \A r \in wire : r.round # job.round
    BY DEF CallInv, WireOK
  <2>3. q.round \in 1..round /\ job.round = round /\ round \in Nat
    BY <1>1, <2>1 DEF Running, CallInv, Types
  <2>4. q.kind = "refresh" => q.dev = me /\ me # None
                              /\ \E i \in Identities : q.keys \in [{i} -> KeySet]
    BY <1>1, <2>1 DEF Running, RefreshStage
  <2>5. q.kind # "refresh" => q.keys \in [Identities -> KeySet]
    BY <1>1, <2>1 DEF Running, ActivateStage
  <2>6. q.kind = "link" => q.dev \in Links /\ bundle[q.dev] = NoBundles
    BY <1>1, <2>1 DEF Running, CallInv, ServedOK
  <2>7. \A r \in wire : r.kind = "link" /\ q.kind = "link" => r.dev # q.dev
    BY <1>1, <2>1, <2>2 DEF Running, CallInv, WireOK
  <2>8. \A r \in wire : r.kind = "link" => ended[r.dev] = "unanswered"
    BY <2>2 DEF CallInv, WireOK
  <2>9. ASSUME NEW r \in wire'
        PROVE  /\ r.kind \in {"refresh", "link", "register"}
               /\ r.round \in 1..round
               /\ r.kind = "refresh" => r.dev = me /\ me # None
                                        /\ \E i \in Identities : r.keys \in [{i} -> KeySet]
               /\ r.kind # "refresh" => r.keys \in [Identities -> KeySet]
               /\ r.round = job'.round => /\ job'.pc = "answer" /\ job'.kind = r.kind
                                          /\ job'.dev = r.dev /\ job'.keys = r.keys
               /\ r.kind = "link" => /\ r.dev \in Links /\ bundle[r.dev] = NoBundles
                                     /\ ended[r.dev] = "unanswered" \/ r.round = job'.round
    <3>1. CASE r = q
      BY <1>1, <1>3, <2>1, <2>3, <2>4, <2>5, <2>6, <3>1 DEF Running
    <3>2. CASE r \in wire
      BY <1>3, <2>2, <2>8, <3>2 DEF CallInv, WireOK
    <3> QED BY <1>2, <3>1, <3>2 DEF q
  <2>10. ASSUME NEW r \in wire', NEW p \in wire',
                r.round = p.round \/ (r.kind = "link" /\ p.kind = "link" /\ r.dev = p.dev)
         PROVE  r = p
    <3>1. (r \in wire \/ r = q) /\ (p \in wire \/ p = q)
      BY <1>2 DEF q
    <3>2. CASE r \in wire /\ p \in wire
      BY <2>10, <3>2 DEF CallInv, WireOK
    <3> QED BY <2>1, <2>2, <2>7, <2>10, <3>1, <3>2
  <2> QED BY <2>9, <2>10 DEF WireOK, NoBundles
<1>7. ServedOK'
  BY <1>1, <1>3 DEF CallInv, ServedOK, Running
<1>8. RefreshOK'
  <2>1. \A x \in Identities : Current(store[x], bundle[me][x])' <=> Current(store[x], bundle[me][x])
    BY DEF Current, Same, SignedPreKey, LastResort, Enough
  <2>2. \A x : Current(store[x], job.keys[x])' <=> Current(store[x], job.keys[x])
    BY <1>3 DEF Current, Same, SignedPreKey, LastResort, Enough
  <2> QED BY <1>3, <2>1, <2>2 DEF CallInv, RefreshOK
<1>9. LinkIsTrue'
  BY DEF CallInv, LinkIsTrue
<1> QED BY <1>4, <1>5, <1>6, <1>7, <1>8, <1>9 DEF CallInv

\* A refresh or a registration fails.
LEMMA GiveUpStep ==
    ASSUME PreKeysAssumption, NoneAssumption, CallInv, GiveUp, job.kind # "link", UNCHANGED linkVars
    PROVE  CallInv'
<1>1. refreshed \in [Identities -> {"unknown", "uploaded", "sufficient"}]
  BY DEF CallInv, Types
<1>2. store' \in [Identities -> Store] /\ store' = store
  BY DEF CallInv, Types, GiveUp
<1> QED BY <1>1, <1>2, ToIdle DEF GiveUp, linkVars

\* Nothing but a request is gone.
LEMMA WireShrinks ==
    ASSUME CallInv, UNCHANGED <<store, bundle, job, me, refreshed, round, told, ended>>,
           wire' \subseteq wire
    PROVE  CallInv'
<1>1. Types'
  BY DEF CallInv, Types
<1>2. JobOK'
  BY DEF CallInv, JobOK, Running, RefreshStage, ActivateStage
<1>3. WireOK'
  BY DEF CallInv, WireOK
<1>4. ServedOK'
  BY DEF CallInv, ServedOK
<1>5. RefreshOK'
  BY DEF CallInv, RefreshOK, Current, Same, SignedPreKey, LastResort, Enough
<1>6. LinkIsTrue'
  BY DEF CallInv, LinkIsTrue
<1> QED BY <1>1, <1>2, <1>3, <1>4, <1>5, <1>6 DEF CallInv

\* A request is lost.
LEMMA LoseRequestStep ==
    ASSUME CallInv, NEW r, LoseRequest(r), UNCHANGED linkVars
    PROVE  CallInv'
<1>1. /\ UNCHANGED <<store, bundle, job, me, refreshed, round, told, ended>>
      /\ wire' \subseteq wire
  BY DEF LoseRequest, linkVars
<1> QED BY <1>1, WireShrinks

\* A peer takes one-time keys; the bundle stays one.
LEMMA FetchStep ==
    ASSUME PreKeysAssumption, NoneAssumption, CallInv, NEW d \in Devices, NEW i \in Identities,
           Fetch(d, i), UNCHANGED linkVars
    PROVE  CallInv'
<1> DEFINE b == bundle[d][i]
           c == [b EXCEPT !.ec = @ \ First(b.ec), !.pq = @ \ First(b.pq)]
<1>1. /\ UNCHANGED <<store, wire, job, me, round, told, ended>>
      /\ b # None
      /\ bundle' = [bundle EXCEPT ![d][i].ec = @ \ First(b.ec), ![d][i].pq = @ \ First(b.pq)]
      /\ refreshed' = IF d = me THEN [refreshed EXCEPT ![i] = "unknown"] ELSE refreshed
  BY DEF Fetch, linkVars
<1>2. /\ bundle \in [Devices -> [Identities -> KeySet \cup {None}]]
      /\ refreshed \in [Identities -> {"unknown", "uploaded", "sufficient"}]
  BY DEF CallInv, Types
<1>3. b \in KeySet /\ c \in KeySet
  <2>1. b \in KeySet
    BY <1>1, <1>2
  <2> HIDE DEF b
  <2>2. /\ b = [f \in {"ec", "pq", "signed", "last"} |-> b[f]]
        /\ b.ec \subseteq Key /\ b.pq \subseteq Key /\ b.signed \in Key /\ b.last \in Key \cup {None}
    BY <2>1 DEF KeySet
  <2>3. c = [ec |-> b.ec \ First(b.ec), pq |-> b.pq \ First(b.pq),
             signed |-> b.signed, last |-> b.last]
    <3> DEFINE A == First(b.ec)
               B == First(b.pq)
    <3>1. c = [b EXCEPT !.ec = @ \ A, !.pq = @ \ B]
      OBVIOUS
    <3> HIDE DEF A, B, c
    <3> QED BY <2>2, <3>1 DEF A, B
  <2> HIDE DEF c
  <2>4. c \in KeySet
    BY <2>2, <2>3 DEF KeySet
  <2> QED BY <2>1, <2>4
<1>4. bundle' = [bundle EXCEPT ![d] = [@ EXCEPT ![i] = c]]
  BY <1>1, <1>2
<1> HIDE DEF c
<1>5. /\ bundle' \in [Devices -> [Identities -> KeySet \cup {None}]]
      /\ \A e \in Devices : e # d => bundle'[e] = bundle[e]
      /\ \A x \in Identities : x # i => bundle'[d][x] = bundle[d][x]
      /\ bundle'[d][i] = c /\ c # None
  BY <1>2, <1>3, <1>4 DEF NoneAssumption
<1>6. Types'
  BY <1>1, <1>2, <1>5 DEF CallInv, Types
<1>7. JobOK'
  BY <1>1 DEF CallInv, JobOK, Running, RefreshStage, ActivateStage
<1>8. bundle[d] # NoBundles /\ Links \subseteq Devices
  BY <1>1 DEF NoBundles, Devices
<1>9. WireOK'
  <2>1. \A r \in wire : r.kind = "link" => bundle'[r.dev] = NoBundles
    BY <1>5, <1>8 DEF CallInv, WireOK
  <2> QED BY <1>1, <2>1 DEF CallInv, WireOK, NoBundles
<1>10. ServedOK'
  <2>1. me # None => me \in Devices
    BY DEF CallInv, Types
  <2>2. me # None => \A x \in Identities : bundle'[me][x] # None
    BY <1>5, <2>1 DEF CallInv, ServedOK
  <2>3. \A a \in Links : bundle'[a] # NoBundles => bundle[a] # NoBundles
    BY <1>5, <1>8
  <2> QED BY <1>1, <2>2, <2>3 DEF CallInv, ServedOK, NoBundles
<1>11. RefreshOK'
  <2>1. ASSUME NEW x \in Identities, refreshed'[x] = "uploaded"
        PROVE  refreshed[x] = "uploaded" /\ me # None /\ bundle'[me][x] = bundle[me][x]
    <3>1. refreshed[x] = "uploaded" /\ (d = me => x # i)
      BY <1>1, <1>2, <2>1
    <3>2. me # None /\ me \in Devices
      BY <3>1 DEF CallInv, RefreshOK, Types
    <3> QED BY <1>5, <3>1, <3>2
  <2>2. ASSUME NEW x \in Identities, refreshed'[x] = "uploaded"
        PROVE  Current(store[x], bundle[me][x])'
    <3>1. Current(store[x], bundle[me][x])
      BY <2>1, <2>2 DEF CallInv, RefreshOK
    <3> QED BY <1>1, <2>1, <2>2, <3>1 DEF Current, Same, SignedPreKey, LastResort, Enough
  <2>3. \A x : Current(store[x], job.keys[x])' <=> Current(store[x], job.keys[x])
    BY <1>1 DEF Current, Same, SignedPreKey, LastResort, Enough
  <2> QED BY <1>1, <2>1, <2>2, <2>3 DEF CallInv, RefreshOK
<1>12. LinkIsTrue'
  <2>1. \A a \in Links, x \in Identities : bundle[a][x] # None => bundle'[a][x] # None
    BY <1>5, <1>8
  <2> QED BY <1>1, <2>1 DEF CallInv, LinkIsTrue
<1> QED BY <1>6, <1>7, <1>9, <1>10, <1>11, <1>12 DEF CallInv

\* A prekey message uses up the keys it was made with.
LEMMA ReceiveStep ==
    ASSUME PreKeysAssumption, NoneAssumption, CallInv, NEW h, Receive(h), UNCHANGED linkVars
    PROVE  CallInv'
<1>1. UNCHANGED <<bundle, wire, job, me, refreshed, round, told, ended>>
  BY DEF Receive, linkVars
<1>2. store \in [Identities -> Store]
  BY DEF CallInv, Types
<1>3. /\ store' \in [Identities -> Store]
      /\ \A x \in Identities : store'[x].signed = store[x].signed /\ store'[x].last = store[x].last
  <2> DEFINE j == h.identity
             s == store[j]
             t == [s EXCEPT !.ec = @ \ h.keys.ec, !.pq = @ \ h.keys.pq]
  <2>1. store' = [store EXCEPT ![j].ec = @ \ h.keys.ec, ![j].pq = @ \ h.keys.pq]
    BY DEF Receive
  <2>2. CASE j \in Identities
    <3>1. s \in Store
      BY <1>2, <2>2
    <3>2. t \in Store /\ t.signed = s.signed /\ t.last = s.last
      BY <3>1 DEF Store
    <3>3. store' = [store EXCEPT ![j] = t]
      BY <1>2, <2>1, <2>2
    <3> HIDE DEF t
    <3> QED BY <1>2, <3>2, <3>3
  <2>3. CASE j \notin Identities
    <3>1. store' = store
      BY <1>2, <2>1, <2>3
    <3> QED BY <1>2, <3>1
  <2> QED BY <2>2, <2>3
<1>4. Types'
  BY <1>1, <1>3 DEF CallInv, Types
<1>5. JobOK'
  BY <1>1 DEF CallInv, JobOK, Running, RefreshStage, ActivateStage
<1>6. WireOK'
  BY <1>1 DEF CallInv, WireOK
<1>7. ServedOK'
  BY <1>1 DEF CallInv, ServedOK
<1>8. RefreshOK'
  <2>1. \A x \in Identities : Current(store[x], bundle[me][x])' <=> Current(store[x], bundle[me][x])
    BY <1>1, <1>3 DEF Current, Same, SignedPreKey, LastResort, Enough
  <2>2. \A x \in Identities : Current(store[x], job.keys[x])' <=> Current(store[x], job.keys[x])
    BY <1>1, <1>3 DEF Current, Same, SignedPreKey, LastResort, Enough
  <2>3. job.pc \in {"upload", "answer"} /\ job.kind = "refresh" => DOMAIN job.keys \subseteq Identities
    BY JobRuns DEF CallInv, Running, RefreshStage
  <2> QED BY <1>1, <2>1, <2>2, <2>3 DEF CallInv, RefreshOK
<1>9. LinkIsTrue'
  BY <1>1 DEF CallInv, LinkIsTrue
<1> QED BY <1>4, <1>5, <1>6, <1>7, <1>8, <1>9 DEF CallInv

\* A registration begins to make its keys.
LEMMA StartRegisterStep ==
    ASSUME PreKeysAssumption, NoneAssumption, CallInv, StartRegister, UNCHANGED linkVars
    PROVE  CallInv'
<1>1. /\ job = Idle /\ me = None /\ round' = round + 1 /\ round \in Nat
      /\ job' = [pc |-> "replenish", kind |-> "register", dev |-> 0, left |-> <<"aci", "pni">>,
                 use |-> TRUE, count |-> 0, round |-> round + 1,
                 keys |-> [x \in {} |-> None]]
      /\ UNCHANGED <<store, bundle, wire, me, refreshed, told, ended>>
  BY JobIdle DEF StartRegister, CallInv, linkVars, Types
<1>2. Types'
  BY <1>1 DEF CallInv, Types
<1>3. JobOK'
  <2>1. [x \in {} |-> None] \in [{} -> KeySet]
    OBVIOUS
  <2>2. job' = [f \in JobFields("register") |-> job'[f]]
    BY <1>1 DEF JobFields
  <2>3. ActivateStage'
    BY <1>1, <2>1 DEF ActivateStage
  <2> QED BY <1>1, <2>2, <2>3 DEF JobOK, Running
<1>4. WireOK'
  BY <1>1 DEF CallInv, WireOK, Idle
<1>5. ServedOK'
  BY <1>1 DEF CallInv, ServedOK, Idle
<1>6. RefreshOK'
  BY <1>1 DEF CallInv, RefreshOK
<1>7. LinkIsTrue'
  BY <1>1 DEF CallInv, LinkIsTrue
<1> QED BY <1>2, <1>3, <1>4, <1>5, <1>6, <1>7 DEF CallInv

\* A link begins.
LEMMA StartLinkStep ==
    ASSUME PreKeysAssumption, NoneAssumption, CallInv, NEW a \in Links, StartLink(a)
    PROVE  CallInv'
<1>1. /\ job = Idle /\ me = None /\ round' = round + 1 /\ round \in Nat /\ ended[a] = "no"
      /\ job' = [pc |-> "url", kind |-> "link", dev |-> a, left |-> <<"aci", "pni">>,
                 use |-> TRUE, count |-> 0, round |-> round + 1,
                 message |-> None, keys |-> [x \in {} |-> None]]
      /\ UNCHANGED <<store, bundle, wire, me, refreshed, told, ended>>
  BY JobIdle DEF StartLink, CallInv, Types
<1>2. Types'
  BY <1>1 DEF CallInv, Types
<1>3. JobOK'
  <2>1. [x \in {} |-> None] \in [{} -> KeySet]
    OBVIOUS
  <2>2. job' = [f \in JobFields("link") |-> job'[f]]
    BY <1>1 DEF JobFields
  <2>3. ActivateStage'
    BY <1>1, <2>1 DEF ActivateStage
  <2> QED BY <1>1, <2>2, <2>3 DEF JobOK, Running
<1>4. WireOK'
  BY <1>1 DEF CallInv, WireOK, Idle
<1>5. ServedOK'
  BY <1>1 DEF CallInv, ServedOK, Idle
<1>6. RefreshOK'
  BY <1>1 DEF CallInv, RefreshOK
<1>7. LinkIsTrue'
  BY <1>1 DEF CallInv, LinkIsTrue
<1> QED BY <1>2, <1>3, <1>4, <1>5, <1>6, <1>7 DEF CallInv

\* An attempt to link ends: before its request went out, without an answer, or with
\* a refusal.
LEMMA LinkEnds ==
    ASSUME PreKeysAssumption, NoneAssumption, CallInv, NEW how,
           Running, job.kind = "link", job' = Idle, ended' = [ended EXCEPT ![job.dev] = how],
           UNCHANGED <<bundle, me, refreshed, round, told>>, store' \in [Identities -> Store],
           \/ wire' \subseteq wire /\ how = "unanswered"
           \/ wire' \subseteq wire /\ job.pc # "answer"
           \/ \E r \in wire : r.round = job.round /\ wire' = wire \ {r}
    PROVE  CallInv'
<1>1. job.dev \in Links /\ ended[job.dev] = "no" /\ me = None /\ ended = [a \in Links |-> ended[a]]
  BY DEF Running, ActivateStage, CallInv, Types
<1>2. /\ ended' = [a \in Links |-> ended'[a]] /\ ended'[job.dev] = how
      /\ \A a \in Links : a # job.dev => ended'[a] = ended[a]
  BY <1>1
<1>3. Types'
  BY <1>2 DEF CallInv, Types
<1>4. JobOK'
  BY DEF JobOK
<1>5. wire' \subseteq wire
  OBVIOUS
<1>6. ASSUME NEW r \in wire', r.kind = "link" PROVE ended'[r.dev] = "unanswered"
  <2>1. r \in wire /\ r.dev \in Links
    BY <1>5, <1>6 DEF CallInv, WireOK
  <2>2. CASE r.dev = job.dev
    <3>1. r.round = job.round /\ job.pc = "answer"
      BY <1>1, <1>6, <2>1, <2>2 DEF CallInv, WireOK
    <3>2. \A q \in wire : q.round = job.round => q = r
      BY <2>1, <3>1 DEF CallInv, WireOK
    <3> QED BY <1>2, <2>2, <3>1, <3>2
  <2>3. CASE r.dev # job.dev
    BY <1>2, <1>6, <2>1, <2>3 DEF CallInv, WireOK
  <2> QED BY <2>2, <2>3
<1>7. WireOK'
  <2>1. \A r \in wire : r.round # 0
    BY DEF CallInv, WireOK, Types
  <2> QED BY <1>5, <1>6, <2>1 DEF CallInv, WireOK, Idle, NoBundles
<1>8. ServedOK'
  <2>1. bundle[job.dev] # NoBundles => how = "unanswered"
    <3>1. \A r \in wire : r.round = job.round => bundle[job.dev] = NoBundles
      BY <1>1 DEF CallInv, WireOK
    <3>2. job.pc # "answer" => bundle[job.dev] = NoBundles
      BY <1>1 DEF CallInv, ServedOK
    <3> QED BY <3>1, <3>2
  <2>2. \A a \in Links : bundle[a] # NoBundles => ended'[a] \in {"linked", "unanswered"}
    BY <1>1, <1>2, <2>1 DEF CallInv, ServedOK
  <2> QED BY <1>1, <2>2 DEF ServedOK, NoneAssumption, NoBundles
<1>9. RefreshOK'
  BY <1>1 DEF CallInv, RefreshOK, Idle
<1>10. LinkIsTrue'
  BY DEF CallInv, LinkIsTrue
<1> QED BY <1>3, <1>4, <1>7, <1>8, <1>9, <1>10 DEF CallInv

\* What one more element makes of a sequence.
Extended(s, t, x) ==
    /\ \A j \in DOMAIN s : j \in DOMAIN t /\ t[j] = s[j]
    /\ \A j \in DOMAIN t : j \in DOMAIN s \/ t[j] = x
    /\ \E k \in DOMAIN t : t[k] = x /\ \A j \in DOMAIN s : j < k

\* Appending keeps what was there, and its order.
LEMMA AppendExtends ==
    ASSUME NEW S, NEW s \in Seq(S), NEW x \in S
    PROVE  Append(s, x) \in Seq(S) /\ Extended(s, Append(s, x), x)
<1>1. PICK t : t = Append(s, x)
  OBVIOUS
<1>2. /\ t \in Seq(S) /\ Len(t) = Len(s) + 1 /\ t[Len(s) + 1] = x
      /\ \A i \in 1..Len(s) : t[i] = s[i]
  BY <1>1, AppendProperties
<1>3. Len(s) \in Nat /\ DOMAIN s = 1..Len(s) /\ DOMAIN t = 1..(Len(s) + 1)
  BY <1>2
<1>4. /\ \A j \in DOMAIN s : j \in DOMAIN t /\ t[j] = s[j]
      /\ \A j \in DOMAIN t : j \in DOMAIN s \/ t[j] = x
  BY <1>2, <1>3
<1>5. Len(s) + 1 \in DOMAIN t /\ \A j \in DOMAIN s : j < Len(s) + 1
  BY <1>3
<1>6. Extended(s, t, x)
  BY <1>2, <1>4, <1>5 DEF Extended
<1> QED BY <1>1, <1>2, <1>6

\* The URL is shown, or the message is taken: the call goes on.
LEMMA LinkGoesOn ==
    ASSUME PreKeysAssumption, NoneAssumption, CallInv, Running, job.kind = "link",
           UNCHANGED <<store, bundle, wire, me, refreshed, round, ended>>,
           \/ /\ job.pc = "url" /\ job' = [job EXCEPT !.pc = "message"]
              /\ told' = Append(told, <<"Url", job.dev>>)
           \/ /\ job.pc = "message" /\ told' = told
              /\ \E m : job' = [job EXCEPT !.pc = "replenish", !.message = m]
    PROVE  CallInv'
<1>1. /\ job.dev \in Links /\ ended[job.dev] = "no" /\ me = None
      /\ told \in Seq({"Url", "Registration"} \X Links)
      /\ job = [f \in JobFields("link") |-> job[f]]
      /\ job.left = <<"aci", "pni">> /\ job.keys \in [{} -> KeySet] /\ job.count = 0
      /\ job.round = round /\ round > 0 /\ job.use = TRUE
  BY DEF Running, ActivateStage, CallInv, Types
<1>2. /\ job' = [f \in JobFields("link") |-> job'[f]]
      /\ job'.pc \in {"message", "replenish"}
      /\ job'.kind = "link" /\ job'.dev = job.dev /\ job'.left = job.left /\ job'.keys = job.keys
      /\ job'.count = job.count /\ job'.round = job.round /\ job'.use = job.use
  BY <1>1 DEF JobFields
<1>3. /\ told' \in Seq({"Url", "Registration"} \X Links)
      /\ <<"Url", job.dev>> \in Range(told')
      /\ \A j \in DOMAIN told : j \in DOMAIN told' /\ told'[j] = told[j]
      /\ \A j \in DOMAIN told' : j \in DOMAIN told \/ told'[j] = <<"Url", job.dev>>
  <2> DEFINE u == <<"Url", job.dev>>
  <2>1. u \in {"Url", "Registration"} \X Links
    BY <1>1
  <2>2. CASE job.pc = "url"
    <3>1. told' = Append(told, u)
      BY <2>2
    <3> HIDE DEF u
    <3>2. told' \in Seq({"Url", "Registration"} \X Links) /\ Extended(told, told', u)
      BY <1>1, <2>1, <3>1, AppendExtends
    <3> QED BY <3>2 DEF Extended, Range, u
  <2>3. CASE job.pc # "url"
    <3>1. told' = told /\ u \in Range(told)
      BY <2>3 DEF Running
    <3> QED BY <1>1, <3>1
  <2> QED BY <2>2, <2>3
<1>4. Types'
  BY <1>3 DEF CallInv, Types
<1>5. JobOK'
  <2>1. ActivateStage'
    BY <1>1, <1>2 DEF ActivateStage
  <2> QED BY <1>1, <1>2, <1>3, <2>1 DEF JobOK, Running
<1>6. WireOK'
  <2>1. \A r \in wire : r.round # job.round
    BY DEF CallInv, WireOK
  <2> QED BY <1>2, <2>1 DEF CallInv, WireOK, NoBundles
<1>7. ServedOK'
  <2>1. job.pc # "answer"
    OBVIOUS
  <2> QED BY <1>2, <2>1 DEF CallInv, ServedOK
<1>8. RefreshOK'
  BY <1>1, <1>2 DEF CallInv, RefreshOK
<1>9. LinkIsTrue'
  <2>1. ASSUME NEW a \in Links, <<"Registration", a>> \in Range(told')
        PROVE  <<"Registration", a>> \in Range(told)
    <3>1. PICK j \in DOMAIN told' : told'[j] = <<"Registration", a>>
      BY <2>1 DEF Range
    <3>2. <<"Registration", a>> # <<"Url", job.dev>>
      OBVIOUS
    <3>3. j \in DOMAIN told /\ told[j] = <<"Registration", a>>
      BY <1>3, <3>1, <3>2
    <3> QED BY <3>3 DEF Range
  <2>2. ASSUME NEW a \in Links, <<"Registration", a>> \in Range(told')
        PROVE  /\ \A i \in Identities : bundle'[a][i] # None
               /\ \E j, k \in DOMAIN told' : j < k /\ told'[j] = <<"Url", a>>
                                                 /\ told'[k] = <<"Registration", a>>
    <3>1. <<"Registration", a>> \in Range(told)
      BY <2>1, <2>2
    <3>2. /\ \A i \in Identities : bundle[a][i] # None
          /\ \E j, k \in DOMAIN told : j < k /\ told[j] = <<"Url", a>>
                                           /\ told[k] = <<"Registration", a>>
      BY <3>1, Zenon DEF CallInv, LinkIsTrue
    <3>3. PICK j, k \in DOMAIN told : j < k /\ told[j] = <<"Url", a>>
                                           /\ told[k] = <<"Registration", a>>
      BY <3>2, Zenon
    <3>4. j \in DOMAIN told' /\ k \in DOMAIN told' /\ told'[j] = told[j] /\ told'[k] = told[k]
      BY <1>3
    <3> QED BY <3>2, <3>3, <3>4
  <2> QED BY <2>2 DEF LinkIsTrue
<1> QED BY <1>4, <1>5, <1>6, <1>7, <1>8, <1>9 DEF CallInv

\* The URL is shown, the message of the primary device comes.
LEMMA ProvisionStepStep ==
    ASSUME PreKeysAssumption, NoneAssumption, CallInv, ProvisionStep
    PROVE  CallInv'
<1>1. Running /\ job.kind = "link"
  <2>1. Running /\ job.pc \in {"url", "message"}
    BY JobRuns DEF ProvisionStep, CallInv
  <2> QED BY <2>1 DEF Running, RefreshStage
<1>2. UNCHANGED <<store, bundle, wire, me, refreshed, round>> /\ store \in [Identities -> Store]
  BY DEF ProvisionStep, CallInv, Types
<1>3. \/ /\ UNCHANGED ended
         /\ \/ /\ job.pc = "url" /\ job' = [job EXCEPT !.pc = "message"]
               /\ told' = Append(told, <<"Url", job.dev>>)
            \/ /\ job.pc = "message" /\ told' = told
               /\ \E m : job' = [job EXCEPT !.pc = "replenish", !.message = m]
      \/ /\ job.pc = "message" /\ UNCHANGED told /\ job' = Idle
         /\ \E how : ended' = [ended EXCEPT ![job.dev] = how]
  BY DEF ProvisionStep, EndLink
<1> QED BY <1>1, <1>2, <1>3, LinkEnds, LinkGoesOn

\* The provisioning websocket ends before the message.
LEMMA ProvisionFailsStep ==
    ASSUME PreKeysAssumption, NoneAssumption, CallInv, ProvisionFails
    PROVE  CallInv'
<1>1. Running /\ job.kind = "link" /\ job.pc # "answer"
  <2>1. Running /\ job.pc \in {"url", "message"}
    BY JobRuns DEF ProvisionFails, CallInv
  <2> QED BY <2>1 DEF Running, RefreshStage
<1>2. UNCHANGED <<store, bundle, wire, me, refreshed, round, told>> /\ store \in [Identities -> Store]
      /\ job' = Idle /\ ended' = [ended EXCEPT ![job.dev] = "pipe"]
  BY DEF ProvisionFails, EndLink, CallInv, Types
<1> QED BY <1>1, <1>2, LinkEnds

\* link_device asks for the device.
LEMMA UploadLinkStep ==
    ASSUME PreKeysAssumption, NoneAssumption, CallInv, UploadLink
    PROVE  CallInv'
<1>1. Running /\ job.kind = "link" /\ job.pc = "upload"
  BY JobRuns DEF UploadLink, CallInv
<1>2. UNCHANGED <<store, bundle, me, refreshed, round, told>> /\ store \in [Identities -> Store]
  BY DEF UploadLink, CallInv, Types
<1>3. CASE Send(Request(job.message.code)) /\ UNCHANGED ended
  BY <1>1, <1>2, <1>3, SendStep
<1>4. ASSUME NEW how, how \in {"deviceName", "profileKeyLength"}, EndLink(how), UNCHANGED wire
      PROVE  CallInv'
  BY <1>1, <1>2, <1>4, LinkEnds DEF EndLink
<1> QED BY <1>3, <1>4 DEF UploadLink

\* A link fails, before or after it asked for the device.
LEMMA GiveUpLinkStep ==
    ASSUME PreKeysAssumption, NoneAssumption, CallInv, GiveUpLink
    PROVE  CallInv'
<1>1. Running /\ job.kind = "link"
  BY JobRuns DEF GiveUpLink, GiveUp, CallInv
<1>2. UNCHANGED <<store, bundle, wire, me, refreshed, round, told>> /\ store \in [Identities -> Store]
      /\ job' = Idle /\ ended' = [ended EXCEPT ![job.dev] = "unanswered"]
  BY DEF GiveUpLink, GiveUp, CallInv, Types
<1> QED BY <1>1, <1>2, LinkEnds

\* One replenish_pre_keys: the store it fills, the saves it makes, how many of them
\* are made, and what becomes of the call.
Refills(i, use, saves, n) ==
    /\ i \in Identities /\ i = Head(job.left)
    /\ use \in BOOLEAN /\ use = WantsLastResort(store[i])
    /\ Shape(saves, store[i], use, job.count, job.round)
    /\ n \in 0..Len(saves)
    /\ store' = [store EXCEPT ![i] = Saved(store[i], saves, n)]
    /\ Result(store[i], saves, n, Saved(store[i], saves, n))
    /\ \/ job' = Idle
       \/ /\ n = Len(saves)
          /\ job' = [job EXCEPT
                !.left = Tail(@), !.pc = IF Len(job.left) = 1 THEN "upload" ELSE "replenish",
                !.keys = [x \in DOMAIN @ \cup {i} |->
                             IF x = i THEN (IF job.kind = "refresh" THEN Published(store[i], saves)
                                            ELSE Activated(store[i], saves))
                             ELSE @[x]]]

\* A replenishment is n of the saves it would make, for one store.
LEMMA ReplenishRefills ==
    ASSUME PreKeysAssumption, NoneAssumption, CallInv, Replenish
    PROVE  \E i, use, saves, n : Refills(i, use, saves, n)
<1>1. Running /\ job.pc = "replenish"
  BY JobRuns DEF Replenish, CallInv
<1> DEFINE i == Head(job.left)
           s == store[i]
           use == WantsLastResort(s)
           saves == Saves(s, use, job.count, job.round)
<1>2. i \in Identities /\ job.count \in 0..Batch /\ job.round \in Nat /\ job.use = TRUE
  <2>1. job.count \in 0..Batch /\ job.round \in Nat /\ job.use = TRUE
    BY <1>1 DEF Running, RefreshStage, ActivateStage, CallInv, Types, PreKeysAssumption
  <2>2. \/ job.left = <<"aci", "pni">>
        \/ \E x \in Identities : job.left = <<x>>
    BY <1>1 DEF Running, RefreshStage, ActivateStage, PreKeysAssumption
  <2>3. "aci" \in Identities
    BY DEF PreKeysAssumption
  <2> QED BY <2>1, <2>2, <2>3
<1>3. s \in Store /\ use \in BOOLEAN
  BY <1>2 DEF CallInv, Types, WantsLastResort
<1>4. Shape(saves, s, use, job.count, job.round)
  <2>1. PICK z : z = saves
    OBVIOUS
  <2> HIDE DEF i, s, use
  <2>2. Shape(z, s, use, job.count, job.round)
    BY <1>2, <1>3, <2>1, SavesShape
  <2> QED BY <2>1, <2>2
<1>5. Distinct(saves) /\ saves \in Seq(SaveType)
  <2> HIDE DEF i, s, use, saves
  <2> QED BY <1>2, <1>3, <1>4, SavesDistinct DEF Shape
<1>6. Len(saves) \in Nat /\ Len(saves) > 0
  <2> HIDE DEF i, s, use, saves
  <2>1. Len(saves) = LastPlace(use, job.count) /\ job.count \in Nat
    BY <1>2, <1>4 DEF Shape, PreKeysAssumption
  <2> QED BY <2>1 DEF LastPlace
<1>7. \A n \in 0..Len(saves) : Result(s, saves, n, Saved(s, saves, n))
  <2> HIDE DEF i, s, use, saves
  <2> QED BY <1>3, <1>5, SavedResult
<1>8. PICK n \in 0..Len(saves) :
        /\ store' = [store EXCEPT ![i] = Saved(s, saves, n)]
        /\ \/ job' = Idle
           \/ /\ n = Len(saves)
              /\ job' = [job EXCEPT
                    !.left = Tail(@), !.pc = IF Len(job.left) = 1 THEN "upload" ELSE "replenish",
                    !.keys = [x \in DOMAIN @ \cup {i} |->
                                 IF x = i THEN (IF job.kind = "refresh" THEN Published(s, saves)
                                                ELSE Activated(s, saves))
                                 ELSE @[x]]]
  <2>1. \/ store' = [store EXCEPT ![i] = Saved(s, saves, Len(saves))]
           /\ job' = [job EXCEPT
                    !.left = Tail(@), !.pc = IF Len(job.left) = 1 THEN "upload" ELSE "replenish",
                    !.keys = [x \in DOMAIN @ \cup {i} |->
                                 IF x = i THEN (IF job.kind = "refresh" THEN Published(s, saves)
                                                ELSE Activated(s, saves))
                                 ELSE @[x]]]
        \/ store' = [store EXCEPT ![i] = Saved(s, saves, Len(saves) - 1)] /\ job' = Idle
        \/ \E n \in 0..Len(saves) - 1 : store' = [store EXCEPT ![i] = Saved(s, saves, n)]
                                         /\ job' = Idle
    BY Zenon DEF Replenish, Fail
  <2>2. /\ Len(saves) \in 0..Len(saves) /\ Len(saves) - 1 \in 0..Len(saves)
        /\ \A n \in 0..Len(saves) - 1 : n \in 0..Len(saves)
    BY <1>6
  <2> HIDE DEF i, s, use, saves
  <2> QED BY <2>1, <2>2, Zenon
<1>9. Refills(i, use, saves, n)
  BY <1>2, <1>3, <1>4, <1>7, <1>8, Zenon DEF Refills
<1> QED BY <1>9

\* A replenishment keeps the invariant, complete or not.
LEMMA ReplenishStep ==
    ASSUME PreKeysAssumption, NoneAssumption, CallInv, ReplenishKeys
    PROVE  CallInv'
<1>1. Running /\ job.pc = "replenish"
  BY JobRuns DEF ReplenishKeys, Replenish, CallInv
<1>2. PICK i, use, saves, n : Refills(i, use, saves, n)
  BY ReplenishRefills DEF ReplenishKeys
<1>3. UNCHANGED <<bundle, wire, me, refreshed, round, told>>
  BY DEF ReplenishKeys, Replenish
<1> DEFINE s == store[i]
           b == Saved(s, saves, n)
<1>4. i \in Identities /\ s \in Store /\ b \in Store /\ store \in [Identities -> Store]
  BY <1>2 DEF Refills, Result, CallInv, Types
<1>5. /\ store' = [store EXCEPT ![i] = b] /\ store' \in [Identities -> Store]
      /\ \A x \in Identities : x # i => store'[x] = store[x]
      /\ store'[i] = b
  BY <1>2, <1>4 DEF Refills
<1>6. /\ refreshed[i] # "uploaded"
      /\ me = None => \A x \in Identities : refreshed[x] # "uploaded"
  <2>1. job.kind = "refresh" => job.left = <<i>>
    BY <1>1, <1>2 DEF Running, RefreshStage, Refills
  <2>2. job.kind # "refresh" => me = None
    BY <1>1 DEF Running, ActivateStage
  <2> QED BY <1>1, <1>4, <2>1, <2>2 DEF CallInv, RefreshOK
<1>7. refreshed \in [Identities -> {"unknown", "uploaded", "sufficient"}]
  BY DEF CallInv, Types
<1>8. job'.pc = "idle" <=> job' = Idle
  <2>1. job' = Idle => job'.pc = "idle"
    BY DEF Idle
  <2>2. ASSUME job' # Idle PROVE job'.pc # "idle"
    <3> DEFINE rest == Tail(job.left)
               pc == IF Len(job.left) = 1 THEN "upload" ELSE "replenish"
               keys == [x \in DOMAIN job.keys \cup {i} |->
                           IF x = i THEN (IF job.kind = "refresh" THEN Published(store[i], saves)
                                          ELSE Activated(store[i], saves))
                           ELSE job.keys[x]]
    <3>1. job' = [job EXCEPT !.left = rest, !.pc = pc, !.keys = keys] /\ pc # "idle"
      BY <1>2, <2>2 DEF Refills
    <3> HIDE DEF rest, pc, keys
    <3>2. job = [f \in JobFields(job.kind) |-> job[f]] /\ job.kind \in {"refresh", "link", "register"}
      BY <1>1 DEF Running
    <3> QED BY <3>1, <3>2 DEF JobFields
  <2> QED BY <2>1, <2>2
<1>9. CASE job' = Idle
  <2>1. CASE job.kind = "link"
    <3>1. ended' = [ended EXCEPT ![job.dev] = "store"]
      BY <1>8, <1>9, <2>1 DEF ReplenishKeys
    <3> QED BY <1>1, <1>3, <1>5, <1>9, <2>1, <3>1, LinkEnds
  <2>2. CASE job.kind # "link"
    <3>1. UNCHANGED ended
      BY <2>2 DEF ReplenishKeys
    <3>2. \A x \in Identities : refreshed'[x] = "uploaded" =>
                                     refreshed[x] = "uploaded" /\ store'[x] = store[x]
      BY <1>3, <1>5, <1>6
    <3> HIDE DEF b
    <3> QED BY <1>3, <1>5, <1>7, <1>9, <2>2, <3>1, <3>2, ToIdle
  <2> QED BY <2>1, <2>2
<1>10. CASE job' # Idle
  <2>1. UNCHANGED ended
    BY <1>8, <1>10 DEF ReplenishKeys
  <2> DEFINE k == IF job.kind = "refresh" THEN Published(s, saves) ELSE Activated(s, saves)
             keys == [x \in DOMAIN job.keys \cup {i} |-> IF x = i THEN k ELSE job.keys[x]]
  <2>2. /\ n = Len(saves)
        /\ job' = [job EXCEPT
              !.left = Tail(@), !.pc = IF Len(job.left) = 1 THEN "upload" ELSE "replenish",
              !.keys = keys]
    BY <1>2, <1>10 DEF Refills
  <2>3. /\ Shape(saves, s, use, job.count, job.round)
        /\ use \in BOOLEAN /\ use = (job.kind = "refresh" => s.last = <<>>)
        /\ Result(s, saves, Len(saves), b)
        /\ i = Head(job.left)
    BY <1>1, <1>2, <2>2 DEF Refills, WantsLastResort, Running
  <2>4. /\ job.count \in 0..Batch /\ job.round \in Nat /\ round \in Nat
        /\ job.kind = "refresh" => job.count = Batch
    BY <1>1 DEF Running, RefreshStage, ActivateStage, CallInv, Types, PreKeysAssumption
  <2>5. k \in KeySet /\ (job.kind = "refresh" => Current(b, k))
    <3>1. CASE job.kind = "refresh"
      <4>1. use = (s.last = <<>>)
        BY <2>3, <3>1
      <4> HIDE DEF s, b
      <4>2. Shape(saves, s, use, Batch, job.round)
        BY <2>3, <2>4, <3>1
      <4>3. ToPublish(s, saves, use, Published(s, saves))
        BY <1>4, <2>3, <2>4, <4>1, <4>2, PublishedKeys DEF PreKeysAssumption
      <4>4. Current(b, Published(s, saves))
        BY <1>4, <2>3, <2>4, <4>1, <4>2, PublishedCurrent
      <4> QED BY <3>1, <4>3, <4>4 DEF ToPublish
    <3>2. CASE job.kind # "refresh"
      <4>1. use = TRUE
        BY <2>3, <3>2
      <4> HIDE DEF s, b
      <4>2. Shape(saves, s, TRUE, job.count, job.round)
        BY <2>3, <4>1
      <4>3. Activated(s, saves) \in KeySet
        BY <1>4, <2>4, <4>2, ActivatedKeys, Zenon
      <4> QED BY <3>2, <4>3
    <3> QED BY <3>1, <3>2
  <2> HIDE DEF k, b, s
  <2>6. /\ job' = [f \in JobFields(job.kind) |-> job'[f]]
        /\ job'.kind = job.kind /\ job'.dev = job.dev /\ job'.count = job.count
        /\ job'.round = job.round /\ job'.use = job.use /\ job'.keys = keys
        /\ job'.left = Tail(job.left)
        /\ job'.pc = IF Len(job.left) = 1 THEN "upload" ELSE "replenish"
    <3>1. job = [f \in JobFields(job.kind) |-> job[f]] /\ job.kind \in {"refresh", "link", "register"}
      BY <1>1 DEF Running
    <3> HIDE DEF keys
    <3> QED BY <2>2, <3>1 DEF JobFields
  <2>7. Types'
    BY <1>3, <1>5, <2>1 DEF CallInv, Types
  <2>8. job.kind = "refresh" =>
          /\ job.left = <<i>> /\ job'.left = <<>> /\ job'.pc = "upload"
          /\ job'.keys \in [{i} -> KeySet] /\ job'.keys[i] = k
    <3>1. SUFFICES ASSUME job.kind = "refresh"
                   PROVE  /\ job.left = <<i>> /\ job'.left = <<>> /\ job'.pc = "upload"
                          /\ job'.keys \in [{i} -> KeySet] /\ job'.keys[i] = k
      OBVIOUS
    <3>2. job.left = <<i>> /\ DOMAIN job.keys = {}
      BY <1>1, <2>3, <3>1 DEF Running, RefreshStage
    <3>3. keys = [x \in {i} |-> k]
      BY <3>2
    <3>4. Len(job.left) = 1 /\ Tail(job.left) = <<>>
      BY <3>2
    <3> QED BY <2>5, <2>6, <3>2, <3>3, <3>4
  <2>9. job.kind # "refresh" => ActivateStage'
    <3>1. SUFFICES ASSUME job.kind # "refresh" PROVE ActivateStage'
      OBVIOUS
    <3>2. me = None /\ job.count = 0 /\ Identities = {"aci", "pni"}
      BY <1>1, <3>1 DEF Running, ActivateStage, PreKeysAssumption
    <3>3. CASE job.left = <<"aci", "pni">> /\ job.keys \in [{} -> KeySet]
      <4>1. i = "aci" /\ Len(job.left) = 2 /\ Tail(job.left) = <<"pni">>
        BY <2>3, <3>3
      <4>2. keys \in [{"aci"} -> KeySet]
        BY <2>5, <3>3, <4>1
      <4> HIDE DEF keys
      <4> QED BY <1>3, <2>6, <3>2, <4>1, <4>2 DEF ActivateStage
    <3>4. CASE job.left = <<"pni">> /\ job.keys \in [{"aci"} -> KeySet]
      <4>1. i = "pni" /\ Len(job.left) = 1 /\ Tail(job.left) = <<>>
        BY <2>3, <3>4
      <4>2. keys \in [{"aci", "pni"} -> KeySet]
        BY <2>5, <3>4, <4>1
      <4> HIDE DEF keys
      <4> QED BY <1>3, <2>6, <3>2, <4>1, <4>2 DEF ActivateStage
    <3> QED BY <1>1, <3>1, <3>3, <3>4 DEF Running, ActivateStage
  <2> HIDE DEF keys
  <2>10. JobOK'
    <3>1. job.kind = "refresh" => RefreshStage'
      BY <1>1, <1>3, <1>4, <2>6, <2>8 DEF Running, RefreshStage
    <3>2. job'.pc \in {"upload", "replenish"}
      BY <2>6
    <3> QED BY <1>1, <1>3, <2>1, <2>6, <2>9, <3>1, <3>2 DEF JobOK, Running
  <2>11. WireOK'
    <3>1. \A r \in wire : r.round # job.round
      BY <1>1 DEF CallInv, WireOK
    <3> QED BY <1>3, <2>1, <2>6, <3>1 DEF CallInv, WireOK, NoBundles
  <2>12. ServedOK'
    BY <1>1, <1>3, <2>1 DEF CallInv, ServedOK
  <2>13. RefreshOK'
    <3>1. \A x \in Identities : x # i => /\ refreshed'[x] = refreshed[x]
                                         /\ Current(store[x], bundle[me][x])' <=> Current(store[x], bundle[me][x])
      BY <1>3, <1>5 DEF Current, Same, SignedPreKey, LastResort, Enough
    <3>2. refreshed'[i] # "uploaded"
      BY <1>3, <1>6
    <3>3. job.kind = "refresh" => DOMAIN job'.keys = {i} /\ Current(store[i], job.keys[i])'
      <4>1. Current(b, k) /\ job.kind = "refresh" => Current(store[i], job.keys[i])'
        BY <1>5, <2>8 DEF Current, Same, SignedPreKey, LastResort, Enough
      <4> QED BY <2>5, <2>8, <4>1
    <3>4. job'.kind = "refresh" => job'.pc = "upload"
      BY <2>6, <2>8
    <3>5. \A x \in Identities : refreshed'[x] = "uploaded" =>
             /\ x # i /\ me' # None /\ Current(store[x], bundle[me][x])'
             /\ ~(job'.pc = "check" /\ job'.kind = "refresh")
             /\ ~(job'.pc = "replenish" /\ job'.kind = "refresh")
      BY <1>3, <3>1, <3>2, <3>4 DEF CallInv, RefreshOK
    <3> QED BY <2>6, <3>3, <3>5 DEF RefreshOK
  <2>14. LinkIsTrue'
    BY <1>3 DEF CallInv, LinkIsTrue
  <2> QED BY <2>7, <2>10, <2>11, <2>12, <2>13, <2>14 DEF CallInv
<1> QED BY <1>9, <1>10

\* What the server has after an upload for one identity.
Registered(b, i, keys, n) ==
    /\ n \in [Identities -> KeySet \cup {None}]
    /\ \A x \in Identities : x # i => n[x] = b[x]
    /\ n[i] \in KeySet /\ n[i] # None
    /\ n[i].ec = keys[i].ec /\ n[i].pq = keys[i].pq /\ n[i].signed = keys[i].signed
    /\ n[i].last = IF keys[i].last = None THEN b[i].last ELSE keys[i].last

\* An upload for one identity leaves the other and replaces what it names.
LEMMA RegisterOne ==
    ASSUME NoneAssumption, NEW b \in [Identities -> KeySet \cup {None}], NEW i \in Identities,
           b[i] # None, NEW keys \in [{i} -> KeySet]
    PROVE  Registered(b, i, keys, Register(b, keys))
<1> DEFINE k == keys[i]
           n == IF k.last = None THEN [k EXCEPT !.last = b[i].last] ELSE k
<1>1. k \in KeySet /\ b[i] \in KeySet
  OBVIOUS
<1>2. Register(b, keys) = [x \in Identities |-> IF x = i THEN n ELSE b[x]]
  BY DEF Register
<1> HIDE DEF k
<1>3. /\ n \in KeySet /\ n.ec = k.ec /\ n.pq = k.pq /\ n.signed = k.signed
      /\ n.last = IF k.last = None THEN b[i].last ELSE k.last
  <2>1. /\ k = [f \in {"ec", "pq", "signed", "last"} |-> k[f]]
        /\ k.ec \subseteq Key /\ k.pq \subseteq Key /\ k.signed \in Key /\ k.last \in Key \cup {None}
        /\ b[i].last \in Key \cup {None}
    BY <1>1 DEF KeySet
  <2>2. n = [ec |-> k.ec, pq |-> k.pq, signed |-> k.signed,
             last |-> IF k.last = None THEN b[i].last ELSE k.last]
    BY <2>1
  <2> HIDE DEF n
  <2> QED BY <2>1, <2>2 DEF KeySet
<1> HIDE DEF n
<1> QED BY <1>2, <1>3 DEF NoneAssumption, k, Registered

\* The server takes an upload of keys.
LEMMA ServeUploadStep ==
    ASSUME PreKeysAssumption, NoneAssumption, CallInv, NEW r, ServeUpload(r), UNCHANGED linkVars
    PROVE  CallInv'
<1>1. /\ r \in wire /\ r.kind = "refresh" /\ wire' = wire \ {r}
      /\ UNCHANGED <<store, me, round, told, ended>>
  BY DEF ServeUpload, linkVars
<1>2. /\ r.dev = me /\ me # None /\ me \in Devices
      /\ \A x \in Identities : bundle[me][x] # None
      /\ bundle[me] \in [Identities -> KeySet \cup {None}]
      /\ bundle \in [Devices -> [Identities -> KeySet \cup {None}]]
      /\ refreshed \in [Identities -> {"unknown", "uploaded", "sufficient"}]
  BY <1>1 DEF CallInv, WireOK, Types, ServedOK
<1>3. PICK i \in Identities : r.keys \in [{i} -> KeySet]
  BY <1>1 DEF CallInv, WireOK
<1> DEFINE b == Register(bundle[me], r.keys)
<1>4. (CHOOSE x \in DOMAIN r.keys : TRUE) = i
  BY <1>3
<1>5. /\ bundle' = [bundle EXCEPT ![me] = b]
      /\ \/ /\ Awaited(r) /\ job' = Idle
            /\ refreshed' = [refreshed EXCEPT ![i] = "uploaded"]
         \/ /\ UNCHANGED job
            /\ refreshed' = [refreshed EXCEPT ![i] = "unknown"]
  BY <1>2, <1>4 DEF ServeUpload
<1>6. /\ b \in [Identities -> KeySet \cup {None}]
      /\ \A x \in Identities : x # i => b[x] = bundle[me][x]
      /\ \A x \in Identities : b[x] # None
      /\ b[i].ec = r.keys[i].ec /\ b[i].pq = r.keys[i].pq /\ b[i].signed = r.keys[i].signed
      /\ b[i].last = IF r.keys[i].last = None THEN bundle[me][i].last ELSE r.keys[i].last
  <2>1. Registered(bundle[me], i, r.keys, b)
    BY <1>2, <1>3, RegisterOne
  <2> QED BY <1>2, <2>1 DEF Registered
<1> HIDE DEF b
<1>7. /\ bundle' \in [Devices -> [Identities -> KeySet \cup {None}]]
      /\ bundle'[me] = b
      /\ \A d \in Devices : d # me => bundle'[d] = bundle[d]
      /\ bundle[me] # NoBundles
  BY <1>2, <1>3, <1>5, <1>6 DEF NoBundles
<1>8. \/ job' = Idle /\ job.kind = "refresh" /\ job.keys = r.keys /\ job.pc = "answer"
      \/ job' = job
  BY <1>1, <1>5 DEF CallInv, WireOK, Awaited
<1>9. Types'
  BY <1>1, <1>2, <1>5, <1>7 DEF CallInv, Types
<1>10. JobOK'
  <2>1. JobOK
    BY DEF CallInv
  <2>2. CASE job' = job
    BY <1>1, <2>1, <2>2 DEF JobOK, Running, RefreshStage, ActivateStage
  <2> QED BY <1>8, <2>2 DEF JobOK
<1>11. Links \subseteq Devices
  BY DEF Devices
<1>12. WireOK'
  <2>1. \A q \in wire : q.kind = "link" => bundle'[q.dev] = NoBundles
    BY <1>7, <1>11 DEF CallInv, WireOK
  <2>2. \A q \in wire : q.kind = "link" => ended[q.dev] = "unanswered" \/ q.round = job'.round
    BY <1>8 DEF CallInv, WireOK
  <2>3. \A q \in wire : q.round = job'.round => job' = job
    BY <1>8 DEF CallInv, WireOK, Types, Idle
  <2> QED BY <1>1, <2>1, <2>2, <2>3 DEF CallInv, WireOK, NoBundles
<1>13. ServedOK'
  <2>1. \A a \in Links : bundle'[a] # NoBundles => bundle[a] # NoBundles
    BY <1>7, <1>11
  <2>2. \A x \in Identities : bundle'[me][x] # None
    BY <1>6, <1>7
  <2> QED BY <1>1, <1>8, <2>1, <2>2 DEF CallInv, ServedOK, NoBundles
<1>14. RefreshOK'
  <2>1. ASSUME job' = Idle, job.kind = "refresh", job.keys = r.keys, job.pc = "answer"
        PROVE  Current(store[i], bundle[me][i])'
    <3>1. Current(store[i], r.keys[i])
      BY <1>3, <2>1 DEF CallInv, RefreshOK
    <3>2. b[i].last = r.keys[i].last
      BY <1>6, <3>1 DEF Current, Same
    <3> QED BY <1>1, <1>6, <1>7, <3>1, <3>2 DEF Current, Same, SignedPreKey, LastResort, Enough
  <2>2. ASSUME NEW x \in Identities, x # i, refreshed[x] = "uploaded"
        PROVE  Current(store[x], bundle[me][x])'
    <3>1. bundle'[me][x] = bundle[me][x]
      BY <1>6, <1>7, <2>2
    <3>2. Current(store[x], bundle[me][x])
      BY <2>2 DEF CallInv, RefreshOK
    <3> QED BY <1>1, <3>1, <3>2 DEF Current, Same, SignedPreKey, LastResort, Enough
  <2>3. /\ \A x \in Identities : x # i => refreshed'[x] = refreshed[x]
        /\ refreshed'[i] = "uploaded" => job' = Idle
    BY <1>2, <1>3, <1>5
  <2>4. refreshed'[i] = "uploaded" => Current(store[i], bundle[me][i])'
    <3>1. refreshed'[i] = "uploaded" => Awaited(r) /\ job' = Idle
      BY <1>2, <1>3, <1>5
    <3>2. Awaited(r) => job.kind = "refresh" /\ job.keys = r.keys /\ job.pc = "answer"
      BY <1>1 DEF CallInv, WireOK, Awaited
    <3> QED BY <2>1, <3>1, <3>2
  <2>5. CASE job' = Idle
    BY <1>1, <1>2, <2>2, <2>3, <2>4, <2>5 DEF RefreshOK, Idle
  <2>6. CASE job' = job /\ job' # Idle
    <3>1. \A x : Current(store[x], job.keys[x])' <=> Current(store[x], job.keys[x])
      BY <1>1, <2>6 DEF Current, Same, SignedPreKey, LastResort, Enough
    <3>2. refreshed'[i] # "uploaded"
      BY <2>3, <2>6
    <3> QED BY <1>1, <1>2, <2>2, <2>3, <2>6, <3>1, <3>2 DEF CallInv, RefreshOK
  <2> QED BY <1>8, <2>5, <2>6
<1>15. LinkIsTrue'
  <2>1. \A a \in Links : \A x \in Identities : bundle[a][x] # None => bundle'[a][x] # None
    BY <1>6, <1>7, <1>11
  <2> QED BY <1>1, <2>1 DEF CallInv, LinkIsTrue
<1> QED BY <1>9, <1>10, <1>12, <1>13, <1>14, <1>15 DEF CallInv

\* A device is made for a link that nobody waits for, or whose answer is lost.
LEMMA LinkLost ==
    ASSUME PreKeysAssumption, NoneAssumption, CallInv, NEW r \in wire, r.kind = "link",
           bundle' = [bundle EXCEPT ![r.dev] = r.keys], wire' = wire \ {r},
           UNCHANGED <<store, job, me, refreshed, round, told, ended>>
    PROVE  CallInv'
<1>1. /\ r.dev \in Links /\ bundle[r.dev] = NoBundles /\ r.keys \in [Identities -> KeySet]
      /\ ended[r.dev] = "unanswered" \/ r.round = job.round
      /\ r.round = job.round => job.pc = "answer" /\ job.kind = "link" /\ job.dev = r.dev
      /\ bundle \in [Devices -> [Identities -> KeySet \cup {None}]]
      /\ Links \subseteq Devices
  BY DEF CallInv, WireOK, Types, Devices
<1>2. me # r.dev
  BY <1>1 DEF CallInv, ServedOK, NoneAssumption, NoBundles, PreKeysAssumption
<1>3. /\ bundle' \in [Devices -> [Identities -> KeySet \cup {None}]]
      /\ bundle'[r.dev] = r.keys /\ \A d \in Devices : d # r.dev => bundle'[d] = bundle[d]
      /\ \A x \in Identities : r.keys[x] # None
  BY <1>1 DEF NoneAssumption
<1>4. me # None => bundle'[me] = bundle[me]
  BY <1>2, <1>3 DEF CallInv, Types
<1>5. Types'
  BY <1>3 DEF CallInv, Types
<1>6. JobOK'
  BY DEF CallInv, JobOK, Running, RefreshStage, ActivateStage
<1>7. WireOK'
  <2>1. \A q \in wire' : q.kind = "link" => q.dev # r.dev /\ q.dev \in Links
    BY DEF CallInv, WireOK
  <2>2. \A q \in wire' : q.kind = "link" => bundle'[q.dev] = NoBundles
    BY <1>1, <1>3, <2>1 DEF CallInv, WireOK
  <2> QED BY <2>2 DEF CallInv, WireOK, NoBundles
<1>8. ServedOK'
  <2>1. me # None => \A x \in Identities : bundle'[me][x] # None
    BY <1>4 DEF CallInv, ServedOK
  <2>2. \A a \in Links : bundle'[a] # NoBundles =>
          \/ ended[a] \in {"linked", "unanswered"}
          \/ job.pc = "answer" /\ job.kind = "link" /\ job.dev = a
    BY <1>1, <1>3 DEF CallInv, ServedOK
  <2> QED BY <2>1, <2>2 DEF CallInv, ServedOK, NoBundles
<1>9. RefreshOK'
  <2>1. ASSUME NEW x \in Identities, refreshed[x] = "uploaded"
        PROVE  me # None /\ Current(store[x], bundle[me][x])'
    <3>1. me # None /\ Current(store[x], bundle[me][x])
      BY <2>1 DEF CallInv, RefreshOK
    <3> QED BY <1>4, <3>1 DEF Current, Same, SignedPreKey, LastResort, Enough
  <2>2. \A x : Current(store[x], job.keys[x])' <=> Current(store[x], job.keys[x])
    BY DEF Current, Same, SignedPreKey, LastResort, Enough
  <2> QED BY <2>1, <2>2 DEF CallInv, RefreshOK
<1>10. LinkIsTrue'
  <2>1. \A a \in Links : \A x \in Identities : bundle[a][x] # None => bundle'[a][x] # None
    BY <1>1, <1>3
  <2> QED BY <2>1 DEF CallInv, LinkIsTrue
<1> QED BY <1>5, <1>6, <1>7, <1>8, <1>9, <1>10 DEF CallInv

\* A device is made and link_device hears of it.
LEMMA Linked ==
    ASSUME PreKeysAssumption, NoneAssumption, CallInv, NEW r \in wire, r.kind = "link", Awaited(r),
           bundle' = [bundle EXCEPT ![r.dev] = r.keys], wire' = wire \ {r},
           job' = Idle, ended' = [ended EXCEPT ![job.dev] = "linked"],
           told' = Append(told, <<"Registration", r.dev>>), me' = r.dev,
           UNCHANGED <<store, refreshed, round>>
    PROVE  CallInv'
<1>1. /\ r.dev \in Links /\ bundle[r.dev] = NoBundles /\ r.keys \in [Identities -> KeySet]
      /\ r.round = job.round /\ job.pc = "answer" /\ job.kind = "link" /\ job.dev = r.dev
      /\ bundle \in [Devices -> [Identities -> KeySet \cup {None}]]
      /\ Links \subseteq Devices
      /\ ended = [a \in Links |-> ended[a]]
      /\ told \in Seq({"Url", "Registration"} \X Links)
  BY DEF CallInv, WireOK, Types, Devices, Awaited
<1>2. Running
  BY <1>1, JobRuns DEF CallInv
<1>3. me = None /\ <<"Url", r.dev>> \in Range(told) /\ ended[r.dev] = "no"
  BY <1>1, <1>2 DEF Running, ActivateStage
<1>4. /\ bundle' \in [Devices -> [Identities -> KeySet \cup {None}]]
      /\ bundle'[r.dev] = r.keys /\ \A d \in Devices : d # r.dev => bundle'[d] = bundle[d]
      /\ \A x \in Identities : r.keys[x] # None
  BY <1>1 DEF NoneAssumption
<1>5. /\ ended' = [a \in Links |-> ended'[a]] /\ ended'[r.dev] = "linked"
      /\ \A a \in Links : a # r.dev => ended'[a] = ended[a]
  BY <1>1
<1> DEFINE x == <<"Registration", r.dev>>
<1>6. x \in {"Url", "Registration"} \X Links
  BY <1>1
<1>7. told' \in Seq({"Url", "Registration"} \X Links) /\ Extended(told, told', x)
  BY <1>1, <1>6, AppendExtends
<1>8. Types'
  BY <1>1, <1>4, <1>5, <1>7 DEF CallInv, Types
<1>9. JobOK'
  BY DEF JobOK
<1>10. WireOK'
  <2>1. \A q \in wire' : q.kind # "refresh" /\ q.round # job.round /\ q.round # 0
    BY <1>1, <1>3 DEF CallInv, WireOK, Types
  <2>2. \A q \in wire' : q.kind = "link" => /\ q.dev # r.dev /\ q.dev \in Links
                                            /\ ended[q.dev] = "unanswered"
    BY <2>1 DEF CallInv, WireOK
  <2>3. \A q \in wire' : q.kind = "link" => /\ bundle'[q.dev] = NoBundles
                                            /\ ended'[q.dev] = "unanswered"
    BY <1>1, <1>4, <1>5, <2>2 DEF CallInv, WireOK
  <2> QED BY <2>1, <2>3 DEF CallInv, WireOK, NoBundles, Idle
<1>11. ServedOK'
  <2>1. \A a \in Links : bundle'[a] # NoBundles => ended'[a] \in {"linked", "unanswered"}
    BY <1>1, <1>4, <1>5 DEF CallInv, ServedOK
  <2> QED BY <1>1, <1>4, <1>5, <2>1 DEF ServedOK, NoBundles
<1>12. RefreshOK'
  BY <1>1, <1>3 DEF CallInv, RefreshOK, Idle
<1>13. LinkIsTrue'
  <2>1. ASSUME NEW a \in Links, <<"Registration", a>> \in Range(told')
        PROVE  /\ \A z \in Identities : bundle'[a][z] # None
               /\ \E j, k \in DOMAIN told' : j < k /\ told'[j] = <<"Url", a>>
                                                   /\ told'[k] = <<"Registration", a>>
    <3>1. CASE a = r.dev
      <4>1. PICK j \in DOMAIN told : told[j] = <<"Url", r.dev>>
        BY <1>3 DEF Range
      <4> HIDE DEF x
      <4>2. PICK k \in DOMAIN told' : told'[k] = x /\ \A m \in DOMAIN told : m < k
        BY <1>7 DEF Extended
      <4>3. j \in DOMAIN told' /\ told'[j] = <<"Url", r.dev>> /\ j < k
        BY <1>7, <4>1, <4>2 DEF Extended
      <4> QED BY <1>4, <3>1, <4>2, <4>3 DEF x
    <3>2. CASE a # r.dev
      <4>1. PICK k \in DOMAIN told' : told'[k] = <<"Registration", a>>
        BY <2>1 DEF Range
      <4>2. x # <<"Registration", a>>
        BY <3>2
      <4> HIDE DEF x
      <4>3. <<"Registration", a>> \in Range(told)
        BY <1>7, <4>1, <4>2 DEF Extended, Range
      <4>4. PICK j, m \in DOMAIN told : j < m /\ told[j] = <<"Url", a>> /\ told[m] = <<"Registration", a>>
        BY <4>3 DEF CallInv, LinkIsTrue
      <4>5. \A z \in Identities : bundle[a][z] # None
        BY <4>3 DEF CallInv, LinkIsTrue
      <4>6. /\ j \in DOMAIN told' /\ told'[j] = <<"Url", a>>
            /\ m \in DOMAIN told' /\ told'[m] = <<"Registration", a>> /\ j < m
        BY <1>7, <4>4 DEF Extended
      <4>7. bundle'[a] = bundle[a]
        BY <1>1, <1>4, <3>2
      <4> QED BY <4>5, <4>6, <4>7
    <3> QED BY <3>1, <3>2
  <2> QED BY <2>1 DEF LinkIsTrue
<1> QED BY <1>8, <1>9, <1>10, <1>11, <1>12, <1>13 DEF CallInv

\* The server makes a linked device.
LEMMA ServeLinkStep ==
    ASSUME PreKeysAssumption, NoneAssumption, CallInv, NEW r, ServeLink(r)
    PROVE  CallInv'
<1>1. r \in wire /\ r.kind = "link" /\ wire' = wire \ {r} /\ UNCHANGED <<store, refreshed, round>>
  BY DEF ServeLink
<1>2. CASE /\ bundle' = [bundle EXCEPT ![r.dev] = r.keys] /\ Awaited(r) /\ EndLink("linked")
           /\ told' = Append(told, <<"Registration", r.dev>>) /\ me' = r.dev
  BY <1>1, <1>2, Linked DEF EndLink
<1>3. CASE bundle' = [bundle EXCEPT ![r.dev] = r.keys] /\ UNCHANGED <<job, ended, told, me>>
  BY <1>1, <1>3, LinkLost
<1>4. CASE Awaited(r) /\ EndLink("refused") /\ UNCHANGED <<bundle, told, me>>
  <2>1. job.kind = "link" /\ job.pc = "answer" /\ r.round = job.round
    BY <1>1, <1>4 DEF Awaited, CallInv, WireOK
  <2>2. Running /\ store' \in [Identities -> Store]
    BY <1>1, <2>1, JobRuns DEF CallInv, Types
  <2>3. job' = Idle /\ ended' = [ended EXCEPT ![job.dev] = "refused"]
    BY <1>4 DEF EndLink
  <2>4. \E q \in wire : q.round = job.round /\ wire' = wire \ {q}
    BY <1>1, <2>1
  <2>5. UNCHANGED <<bundle, me, refreshed, round, told>>
    BY <1>1, <1>4
  <2> QED BY <2>1, <2>2, <2>3, <2>4, <2>5, LinkEnds
<1>5. CASE UNCHANGED <<job, ended, bundle, told, me>>
  BY <1>1, <1>5, WireShrinks
<1> QED BY <1>2, <1>3, <1>4, <1>5 DEF ServeLink

\* The server registers the account.
LEMMA ServeRegisterStep ==
    ASSUME PreKeysAssumption, NoneAssumption, CallInv, NEW r, ServeRegister(r), UNCHANGED linkVars
    PROVE  CallInv'
<1>1. /\ r \in wire /\ r.kind = "register" /\ wire' = wire \ {r}
      /\ UNCHANGED <<store, round, told, ended>>
  BY DEF ServeRegister, linkVars
<1>2. /\ r.keys \in [Identities -> KeySet]
      /\ Awaited(r) => /\ r.round = job.round /\ job.pc = "answer" /\ job.kind = "register"
      /\ bundle \in [Devices -> [Identities -> KeySet \cup {None}]]
      /\ 0 \in Devices /\ 0 \notin Links /\ Links \subseteq Devices
      /\ refreshed \in [Identities -> {"unknown", "uploaded", "sufficient"}]
  BY <1>1 DEF CallInv, WireOK, Types, Devices, Awaited, PreKeysAssumption
<1>3. Awaited(r) => me = None
  <2>1. Awaited(r) => Running
    BY <1>2, JobRuns DEF CallInv
  <2> QED BY <1>2, <2>1 DEF Running, ActivateStage
<1>4. CASE /\ bundle' = [bundle EXCEPT ![0] = r.keys]
           /\ refreshed' = IF me = 0 THEN [i \in Identities |-> "unknown"] ELSE refreshed
           /\ (Awaited(r) /\ me' = 0 /\ job' = Idle) \/ UNCHANGED <<me, job>>
  <2>1. /\ bundle' \in [Devices -> [Identities -> KeySet \cup {None}]]
        /\ bundle'[0] = r.keys /\ \A d \in Devices : d # 0 => bundle'[d] = bundle[d]
        /\ \A x \in Identities : r.keys[x] # None
        /\ \A a \in Links : bundle'[a] = bundle[a]
    BY <1>2, <1>4 DEF NoneAssumption
  <2>2. Types'
    BY <1>1, <1>2, <1>4, <2>1 DEF CallInv, Types
  <2>3. JobOK'
    <3>1. CASE UNCHANGED <<me, job>>
      BY <1>1, <3>1 DEF CallInv, JobOK, Running, RefreshStage, ActivateStage
    <3> QED BY <1>4, <3>1 DEF JobOK
  <2>4. WireOK'
    <3>1. \A q \in wire : q.kind = "link" => bundle'[q.dev] = NoBundles
      BY <2>1 DEF CallInv, WireOK
    <3>2. CASE UNCHANGED <<me, job>>
      BY <1>1, <3>1, <3>2 DEF CallInv, WireOK, NoBundles
    <3>3. CASE Awaited(r) /\ me' = 0 /\ job' = Idle
      <4>1. \A q \in wire : q.kind # "refresh" /\ q.round # 0
        BY <1>3, <3>3 DEF CallInv, WireOK, Types
      <4>2. \A q \in wire : q.kind = "link" => ended[q.dev] = "unanswered"
        BY <1>2, <3>3 DEF CallInv, WireOK
      <4> QED BY <1>1, <3>1, <3>3, <4>1, <4>2 DEF CallInv, WireOK, NoBundles, Idle
    <3> QED BY <1>4, <3>2, <3>3
  <2>5. ServedOK'
    <3>1. CASE UNCHANGED <<me, job>>
      <4>1. me # None => \A x \in Identities : bundle'[me][x] # None
        BY <2>1 DEF CallInv, ServedOK, Types
      <4> QED BY <1>1, <2>1, <3>1, <4>1 DEF CallInv, ServedOK, NoBundles
    <3>2. CASE Awaited(r) /\ me' = 0 /\ job' = Idle
      <4>1. \A a \in Links : bundle'[a] # NoBundles => ended[a] \in {"linked", "unanswered"}
        BY <1>2, <2>1, <3>2 DEF CallInv, ServedOK
      <4> QED BY <1>1, <1>2, <2>1, <3>2, <4>1 DEF ServedOK, NoBundles
    <3> QED BY <1>4, <3>1, <3>2
  <2>6. RefreshOK'
    <3>1. ASSUME NEW x \in Identities, refreshed'[x] = "uploaded"
          PROVE  /\ refreshed[x] = "uploaded" /\ me # None /\ me # 0 /\ UNCHANGED <<me, job>>
                 /\ Current(store[x], bundle[me][x])'
      <4>1. refreshed[x] = "uploaded" /\ me # 0
        BY <1>4, <3>1
      <4>2. me # None /\ Current(store[x], bundle[me][x])
        BY <4>1 DEF CallInv, RefreshOK
      <4>3. UNCHANGED <<me, job>> /\ bundle'[me] = bundle[me]
        BY <1>3, <1>4, <2>1, <4>1, <4>2 DEF CallInv, Types
      <4> QED BY <1>1, <4>1, <4>2, <4>3 DEF Current, Same, SignedPreKey, LastResort, Enough
    <3>2. job' = job \/ job' = Idle
      BY <1>4
    <3>3. job' = job => \A x : Current(store[x], job.keys[x])' <=> Current(store[x], job.keys[x])
      BY <1>1 DEF Current, Same, SignedPreKey, LastResort, Enough
    <3> QED BY <1>1, <3>1, <3>2, <3>3 DEF CallInv, RefreshOK, Idle
  <2>7. LinkIsTrue'
    BY <1>1, <2>1 DEF CallInv, LinkIsTrue
  <2> QED BY <2>2, <2>3, <2>4, <2>5, <2>6, <2>7 DEF CallInv
<1>5. CASE Awaited(r) /\ job' = Idle /\ UNCHANGED <<bundle, refreshed, me>>
  <2>1. store' \in [Identities -> Store] /\ job.kind # "link" /\ wire' \subseteq wire
    BY <1>1, <1>2, <1>5 DEF CallInv, Types
  <2> QED BY <1>1, <1>2, <1>5, <2>1, ToIdle
<1>6. CASE UNCHANGED <<job, bundle, refreshed, me>>
  BY <1>1, <1>6, WireShrinks
<1> QED BY <1>4, <1>5, <1>6 DEF ServeRegister

\* At first there is no call.
LEMMA CallInit ==
    ASSUME PreKeysAssumption, NoneAssumption, Init
    PROVE  CallInv
<1>1. /\ wire = {} /\ job = Idle /\ refreshed = [i \in Identities |-> "unknown"] /\ round = 0
      /\ told = <<>> /\ ended = [a \in Links |-> "no"]
  BY DEF Init, KeysIdle
<1>2. Identities = {"aci", "pni"} /\ Links \subseteq Nat \ {0} /\ StartIds \subseteq Nat /\ 0 \in Devices
  BY DEF PreKeysAssumption, Devices
<1>3. ASSUME NEW n \in Nat
      PROVE  EmptyStore(n) \in Store /\ LegacyStore(n) \in Store
  <2>1. LegacyKey \in Key
    BY DEF LegacyKey, Key
  <2>2. <<>> \in Seq(Key) /\ <<LegacyKey>> \in Seq(Key)
    BY <2>1
  <2>3. LegacyStore(n) = [ec |-> {}, pq |-> {}, signed |-> <<LegacyKey>>, last |-> <<>>,
                          next |-> [ec |-> n, pq |-> n, signed |-> 2]]
    <3>1. PICK e : e = [ec |-> {}, pq |-> {}, signed |-> <<>>, last |-> <<>>,
                        next |-> [ec |-> n, pq |-> n, signed |-> 1]]
      OBVIOUS
    <3>2. LegacyStore(n) = [e EXCEPT !.signed = <<LegacyKey>>, !.next = [@ EXCEPT !.signed = 2]]
      BY <3>1 DEF LegacyStore, EmptyStore
    <3>3. [e.next EXCEPT !.signed = 2] = [ec |-> n, pq |-> n, signed |-> 2]
      BY <3>1
    <3> QED BY <3>1, <3>2, <3>3
  <2> HIDE DEF LegacyKey
  <2> QED BY <2>2, <2>3 DEF EmptyStore, Store
<1>4. LegacyBundle \in KeySet
  BY DEF LegacyBundle, LegacyKey, KeySet, Key
<1>5. \/ /\ me = None /\ store = [i \in Identities |-> EmptyStore(1)]
         /\ bundle = [d \in Devices |-> NoBundles]
      \/ /\ me = 0 /\ \E n \in Nat : store = [i \in Identities |-> LegacyStore(n)]
         /\ bundle = [d \in Devices |->
                        IF d = 0 THEN [i \in Identities |-> LegacyBundle] ELSE NoBundles]
  BY <1>2 DEF Init
<1>6. NoBundles \in [Identities -> KeySet \cup {None}]
  BY DEF NoBundles
<1>7. Types
  <2>1. store \in [Identities -> Store]
    BY <1>3, <1>5
  <2>2. [i \in Identities |-> LegacyBundle] \in [Identities -> KeySet \cup {None}]
    BY <1>4
  <2>3. bundle \in [Devices -> [Identities -> KeySet \cup {None}]]
    BY <1>5, <1>6, <2>2
  <2>4. told \in Seq({"Url", "Registration"} \X Links)
    BY <1>1
  <2> QED BY <1>1, <1>2, <1>5, <2>1, <2>3, <2>4 DEF Types
<1>8. JobOK /\ WireOK
  BY <1>1 DEF JobOK, WireOK
<1>9. ServedOK
  <2>1. \A a \in Links : a \in Devices /\ a # 0
    BY <1>2 DEF Devices
  <2>2. \A a \in Links : bundle[a] = NoBundles
    BY <1>5, <2>1
  <2>3. me \notin Links
    BY <1>2, <1>5 DEF NoneAssumption
  <2>4. me # None => \A i \in Identities : bundle[me][i] # None
    BY <1>2, <1>4, <1>5 DEF NoneAssumption
  <2> QED BY <2>2, <2>3, <2>4 DEF ServedOK
<1>10. RefreshOK
  BY <1>1 DEF RefreshOK, Idle
<1>11. LinkIsTrue
  BY <1>1 DEF LinkIsTrue, Range
<1> QED BY <1>7, <1>8, <1>9, <1>10, <1>11 DEF CallInv

\* Every step keeps the invariant about calls.
LEMMA CallNext ==
    ASSUME PreKeysAssumption, NoneAssumption, CallInv, [Next]_vars
    PROVE  CallInv'
<1>1. "aci" \in Identities /\ "pni" \in Identities
  BY DEF PreKeysAssumption
<1>2. CASE \E i \in {"aci", "pni"} : Keys(StartRefresh(i, TRUE))
  BY <1>1, <1>2, StartRefreshStep DEF Keys
<1>3. CASE Keys(Status) \/ Keys(Check)
  BY <1>3, StatusStep, CheckStep DEF Keys
<1>4. CASE Keys(Upload) \/ Keys(UploadRegister)
  BY <1>4, SendStep DEF Keys, Upload, UploadRegister, linkVars
<1>5. CASE \E r \in wire : Keys(ServeUpload(r)) \/ Keys(LoseRequest(r)) \/ Link(ServeLink(r))
                           \/ (ServeRegister(r) /\ UNCHANGED linkVars)
  BY <1>5, ServeUploadStep, LoseRequestStep, ServeLinkStep, ServeRegisterStep DEF Keys, Link
<1>6. CASE Keys(GiveUp /\ job.kind # "link")
  BY <1>6, GiveUpStep DEF Keys
<1>7. CASE Link(ReplenishKeys) \/ Link(UploadLink) \/ Link(GiveUpLink)
  BY <1>7, ReplenishStep, UploadLinkStep, GiveUpLinkStep DEF Link
<1>8. CASE \/ \E a \in Links : Link(StartLink(a))
           \/ Link(ProvisionStep) \/ Link(ProvisionFails) \/ Keys(StartRegister)
  BY <1>8, StartLinkStep, ProvisionStepStep, ProvisionFailsStep, StartRegisterStep DEF Link, Keys
<1>9. CASE \/ \E d \in Devices, i \in Identities : Keys(Fetch(d, i))
           \/ \E h \in handed : Keys(Receive(h))
  BY <1>9, FetchStep, ReceiveStep DEF Keys
<1>10. CASE UNCHANGED <<store, bundle, wire, job, me, refreshed, round, told, ended>>
  BY <1>10, CallFrame
<1>11. (\/ \E a \in Links : Primary(Scan(a) /\ UNCHANGED failures)
        \/ Primary(GetCode)
        \/ Primary(SendProvision /\ UNCHANGED failures))
       => UNCHANGED <<store, bundle, wire, job, me, refreshed, round, told, ended>>
  BY DEF Primary, Scan, GetCode, SendProvision
<1>12. ((\E op \in {"create", "patch", "request", "submit"} : Session(SessionCall(op)))
           \/ Session(SessionExpires) \/ Transfer \/ UNCHANGED vars)
       => UNCHANGED <<store, bundle, wire, job, me, refreshed, round, told, ended>>
  BY DEF Session, Transfer, vars, keyVars, linkVars
<1>13. CASE Progress
  BY <1>2, <1>3, <1>4, <1>5, <1>6, <1>7, <1>13, Zenon DEF Progress
<1>14. CASE Surroundings
  BY <1>5, <1>8, <1>9, <1>10, <1>11, <1>12, <1>14, Zenon DEF Surroundings
<1> QED BY <1>10, <1>12, <1>13, <1>14 DEF Next

\* What a call about the verification session was answered with is where the
\* session stands.
LEMMA AnswerIsSession ==
    ASSUME NEW op \in {"create", "patch", "request", "submit"}, NEW answer \in Answers(op),
           answer.status \notin {422, 440}
    PROVE  Learned(answer) = answer.session
<1>1. answer.status = 404 => answer.session = "none"
  <2>1. CASE op # "create" /\ session = "none"
    BY <2>1 DEF Answers
  <2>2. CASE ~(op # "create" /\ session = "none")
    <3>1. CASE op = "create"
      BY <2>2, <3>1 DEF Answers
    <3>2. CASE op = "patch"
      BY <2>2, <3>2 DEF Answers
    <3>3. CASE op = "request"
      BY <2>2, <3>3 DEF Answers
    <3>4. CASE op = "submit"
      BY <2>2, <3>4 DEF Answers
    <3> QED BY <3>1, <3>2, <3>3, <3>4
  <2> QED BY <2>1, <2>2
<1> QED BY <1>1 DEF Learned

\* A call that the server answered leaves the view of the session fresh.
LEMMA SessionNext ==
    ASSUME SessionViewIsFresh, [Next]_vars
    PROVE  SessionViewIsFresh'
<1>1. CASE \E op \in {"create", "patch", "request", "submit"} : Session(SessionCall(op))
  <2>1. PICK op \in {"create", "patch", "request", "submit"} : SessionCall(op)
    BY <1>1 DEF Session
  <2>2. PICK answer \in Answers(op) :
          /\ session' = answer.session
          /\ \/ view' = Learned(answer) /\ fresh' = (answer.status \notin {422, 440})
             \/ fresh' = FALSE
    BY <2>1 DEF SessionCall
  <2>3. answer.status \notin {422, 440} => Learned(answer) = answer.session
    BY AnswerIsSession
  <2> QED BY <2>2, <2>3 DEF SessionViewIsFresh
<1>2. CASE Session(SessionExpires)
  BY <1>2 DEF Session, SessionExpires, SessionViewIsFresh
<1>3. CASE \E r \in wire : ServeRegister(r) /\ UNCHANGED <<linkVars, session, arch>>
  BY <1>3 DEF ServeRegister, SessionViewIsFresh
<1>4. CASE UNCHANGED sessionVars
  BY <1>4 DEF sessionVars, SessionViewIsFresh
<1>5. Progress => (\E r \in wire : ServeRegister(r) /\ UNCHANGED <<linkVars, session, arch>>)
                  \/ UNCHANGED sessionVars
  BY Zenon DEF Progress, Keys, Link
<1>6. Surroundings =>
        \/ \E op \in {"create", "patch", "request", "submit"} : Session(SessionCall(op))
        \/ Session(SessionExpires) \/ UNCHANGED sessionVars
  BY Zenon DEF Surroundings, Keys, Link, Primary
<1>7. Transfer \/ UNCHANGED vars => UNCHANGED sessionVars
  BY DEF Transfer, vars
<1> QED BY <1>1, <1>2, <1>3, <1>4, <1>5, <1>6, <1>7 DEF Next

\* Only the steps of the transfer are about the archive.
LEMMA ArchiveNext ==
    ASSUME TransferAssumption, ArchiveInv, [Next]_vars
    PROVE  ArchiveInv'
<1>1. Progress \/ Surroundings \/ UNCHANGED vars => UNCHANGED arch
  BY Zenon DEF Progress, Surroundings, Keys, Link, Primary, Session, vars
<1>2. Transfer => ArchiveStep
  BY DEF Transfer
<1>3. CASE UNCHANGED arch
  BY <1>3 DEF ArchiveInv, PollOK, FileOK, HttpTimeout
<1> QED BY <1>1, <1>2, <1>3, ArchiveSteps DEF Next

-----------------------------------------------------------------------------
(* The invariant: keys a peer may use *)

\* A call takes at most a batch, a last resort key, and the id that is skipped when
\* the next call starts; until the calls so far have gone through the ids once, no
\* key is saved over another.
Stride == Batch + 2
NotLapped == round * Stride < MediumMax - 1

\* The calls that may have saved keys for identity i.
Calls(i) ==
    IF job.pc \notin {"idle", "answer"} /\ \E j \in DOMAIN job.left : job.left[j] = i
    THEN round - 1 ELSE round

\* The id lies at most span behind the next one, around the end of the range.
Behind(id, next, span) ==
    id \in 1..(MediumMax - 1) /\ \E d \in 1..span : id + d = next \/ id + d = next + (MediumMax - 1)

StoreOK ==
    \A i \in Identities :
        /\ store[i].next.ec \in 1..MediumMax /\ store[i].next.pq \in 1..MediumMax
        /\ \A k \in store[i].ec : Behind(k.id, store[i].next.ec, Calls(i) * Stride)
        /\ \A k \in store[i].pq : Behind(k.id, store[i].next.pq, Calls(i) * Stride)
        /\ Range(store[i].last) \subseteq store[i].pq

\* A key set that can be used: the store holds its keys, and its last resort key,
\* if it has one, is kept apart from those that are used once.
Usable(s, k) ==
    /\ Holds(s, k)
    /\ k.last # None => k.last \in Range(s.last)
    /\ \A x \in k.pq : x \notin Range(s.last)

OneTime(k) == k.ec \cup k.pq

Making == job.pc \notin {"idle", "answer"}
PlacesOK ==
    /\ \A d \in Devices, i \in Identities : bundle[d][i] # None => Usable(store[i], bundle[d][i])
    /\ \A h \in handed : /\ h.identity \in Identities /\ h.keys \in KeySet
                         /\ Usable(store[h.identity], h.keys)
    /\ \A r \in wire : \A i \in DOMAIN r.keys : Usable(store[i], r.keys[i])
    /\ Making => \A i \in DOMAIN job.keys : Usable(store[i], job.keys[i])

\* One-time keys are told by the call that made them: those on their way are of the
\* call they travel for, the others of none that is.
Arrived(n) == n \in 0..round /\ (\A r \in wire : r.round # n) /\ (Making => job.round # n)
RoundsOK ==
    /\ \A r \in wire : \A i \in DOMAIN r.keys : \A k \in OneTime(r.keys[i]) :
          k.round = r.round /\ r.kind = "refresh"
    /\ Making => \A i \in DOMAIN job.keys : \A k \in OneTime(job.keys[i]) :
          k.round = job.round /\ job.kind = "refresh"
    /\ \A d \in Devices, i \in Identities : bundle[d][i] # None =>
          \A k \in OneTime(bundle[d][i]) : Arrived(k.round) /\ d = me
    /\ \A h \in handed : \A k \in OneTime(h.keys) : Arrived(k.round)

\* A one-time key is handed out once.
Apart(a, b) == a.ec \cap b.ec = {} /\ a.pq \cap b.pq = {}
HandedOnce ==
    /\ \A h, g \in handed : h # g /\ h.identity = g.identity => Apart(h.keys, g.keys)
    /\ \A h \in handed : \A d \in Devices :
          bundle[d][h.identity] # None => Apart(h.keys, bundle[d][h.identity])

KeysInv == StoreOK /\ PlacesOK /\ RoundsOK /\ HandedOnce

\* All calls but the one under way have saved what they save.
LEMMA CallsBound ==
    ASSUME CallInv, NEW i
    PROVE  /\ Calls(i) \in Nat /\ round \in Nat
           /\ Calls(i) <= round /\ round <= Calls(i) + 1
<1>1. round \in Nat
  BY DEF CallInv, Types
<1>2. job.pc \notin {"idle", "answer"} => round > 0
  BY JobRuns DEF CallInv, Running
<1> QED BY <1>1, <1>2 DEF Calls

\* More calls take more ids.
LEMMA StrideMore ==
    ASSUME PreKeysAssumption, NEW m \in Nat, NEW n \in Nat, m <= n
    PROVE  m * Stride \in Nat /\ n * Stride \in Nat /\ m * Stride <= n * Stride
<1>1. PICK w \in Nat : w = Stride
  BY DEF PreKeysAssumption, Stride
<1>2. m * w \in Nat /\ n * w \in Nat /\ m * w <= n * w
  <2>1. PICK e \in Nat : n = m + e
    <3>1. n - m \in Nat /\ n = m + (n - m)
      OBVIOUS
    <3> QED BY <3>1
  <2>2. (m + e) * w = m * w + e * w /\ e * w \in Nat /\ m * w \in Nat
    OBVIOUS
  <2> QED BY <2>1, <2>2
<1> QED BY <1>1, <1>2

\* What lies within a span lies within a longer one.
LEMMA BehindMore ==
    ASSUME NEW id, NEW next, NEW m \in Nat, NEW n \in Nat, m <= n, Behind(id, next, m)
    PROVE  Behind(id, next, n)
BY DEF Behind

\* A store that has only gained keys holds what it held.
LEMMA UsableKept ==
    ASSUME NEW s, NEW t, NEW k, Usable(s, k), s.ec \subseteq t.ec, s.pq \subseteq t.pq,
           Range(s.signed) \subseteq Range(t.signed), Range(s.last) \subseteq Range(t.last),
           \A x \in k.pq : x \in s.pq => x \notin Range(t.last)
    PROVE  Usable(t, k)
BY DEF Usable, Holds

\* A call starts, goes on, or ends, and what was on its way may be lost: no store
\* and no bundle is touched.
LEMMA CallGoes ==
    ASSUME PreKeysAssumption, NoneAssumption, CallInv, CallInv', KeysInv,
           UNCHANGED <<store, bundle, handed>>, wire' \subseteq wire,
           me' = me \/ me = None, round' >= round,
           \A i \in Identities : Calls(i)' >= Calls(i),
           Making' => \/ /\ Making /\ job'.keys = job.keys
                         /\ job'.round = job.round /\ job'.kind = job.kind
                      \/ DOMAIN job'.keys = {} /\ job'.round > round
    PROVE  KeysInv'
<1>0. round \in Nat /\ round' \in Nat
  BY DEF CallInv, Types
<1>1. StoreOK'
  <2>1. ASSUME NEW i \in Identities, NEW id, NEW next, Behind(id, next, Calls(i) * Stride)
        PROVE  Behind(id, next, Calls(i)' * Stride)
    <3>1. Calls(i) \in Nat
      BY CallsBound
    <3>2. Calls(i)' \in Nat
      <4>1. round' \in Nat /\ (job'.pc \notin {"idle", "answer"} => round' > 0)
        BY <1>0 DEF CallInv, JobOK, Idle, Running
      <4> QED BY <4>1 DEF Calls
    <3>3. PICK m, n \in Nat : m = Calls(i) /\ n = Calls(i)' /\ m <= n
      BY <3>1, <3>2
    <3>4. m * Stride \in Nat /\ n * Stride \in Nat /\ m * Stride <= n * Stride
      BY <3>3, StrideMore
    <3> QED BY <2>1, <3>3, <3>4, BehindMore
  <2> QED BY <2>1 DEF KeysInv, StoreOK, Stride
<1>2. PlacesOK'
  BY DEF KeysInv, PlacesOK, Usable, Holds
<1>3. \A n : Arrived(n) => Arrived(n)'
  BY <1>0 DEF Arrived
<1>4. RoundsOK'
  <2>1. \A d \in Devices : d # None
    BY DEF Devices, NoneAssumption
  <2>2. \A d \in Devices, i \in Identities : bundle'[d][i] # None =>
          \A k \in OneTime(bundle'[d][i]) : Arrived(k.round)' /\ d = me'
    BY <1>3, <2>1 DEF KeysInv, RoundsOK
  <2>3. \A h \in handed' : \A k \in OneTime(h.keys) : Arrived(k.round)'
    BY <1>3 DEF KeysInv, RoundsOK
  <2>4. Making' => \A i \in DOMAIN job'.keys : \A k \in OneTime(job'.keys[i]) :
          k.round = job'.round /\ job'.kind = "refresh"
    BY DEF KeysInv, RoundsOK
  <2> QED BY <2>2, <2>3, <2>4 DEF KeysInv, RoundsOK, OneTime
<1>5. HandedOnce'
  BY DEF KeysInv, HandedOnce, Apart
<1> QED BY <1>1, <1>2, <1>4, <1>5 DEF KeysInv

CallMoves ==
    \/ job' = Idle /\ round' = round
    \/ round' = round + 1 /\ job'.round = round + 1 /\ DOMAIN job'.keys = {}
    \/ round' = round /\ job' = job
    \/ /\ round' = round /\ Making
       /\ job'.keys = job.keys /\ job'.left = job.left
       /\ job'.round = job.round /\ job'.kind = job.kind

\* A step of a call that saves and serves nothing.
LEMMA CallMoved ==
    ASSUME PreKeysAssumption, NoneAssumption, CallInv, CallInv', KeysInv,
           UNCHANGED <<store, bundle, handed>>, wire' \subseteq wire,
           me' = me \/ me = None, CallMoves
    PROVE  KeysInv'
<1>1. \A i : Calls(i) <= round /\ Calls(i) \in Nat /\ round \in Nat
  BY CallsBound
<1>2. round' >= round
  BY <1>1 DEF CallMoves
<1>3. ASSUME NEW i \in Identities PROVE Calls(i)' >= Calls(i)
  <2>1. CASE job' = Idle /\ round' = round
    BY <1>1, <2>1 DEF Calls, Idle
  <2>2. CASE round' = round + 1
    BY <1>1, <2>2 DEF Calls
  <2>3. CASE round' = round /\ (job' = job \/ (Making /\ job'.left = job.left))
    BY <1>1, <2>3 DEF Calls, Making
  <2> QED BY <2>1, <2>2, <2>3 DEF CallMoves
<1>4. Making' => \/ /\ Making /\ job'.keys = job.keys
                    /\ job'.round = job.round /\ job'.kind = job.kind
                 \/ DOMAIN job'.keys = {} /\ job'.round > round
  BY <1>1 DEF CallMoves, Making, Idle
<1> QED BY <1>2, <1>3, <1>4, CallGoes

\* The steps that only move the call along.
LEMMA CallSteps ==
    ASSUME PreKeysAssumption, NoneAssumption, CallInv, CallInv', KeysInv,
           \/ \E i \in Identities : StartRefresh(i, TRUE)
           \/ Status \/ Check \/ GiveUp \/ StartRegister
           \/ \E a \in Links : StartLink(a)
           \/ ProvisionStep \/ ProvisionFails
           \/ \E r : LoseRequest(r)
           \/ UNCHANGED <<store, bundle, wire, handed, job, me, round>>
    PROVE  KeysInv'
<1>1. Making => job = [f \in JobFields(job.kind) |-> job[f]] /\ job.kind \in {"refresh", "link", "register"}
  BY JobRuns DEF Making, CallInv, Running
<1>2. CASE \E i \in Identities : StartRefresh(i, TRUE)
  BY <1>2, CallMoved DEF StartRefresh, CallMoves
<1>3. CASE Status
  <2>1. PICK e : job' = [job EXCEPT !.pc = "check", !.enough = e] \/ job' = [job EXCEPT !.pc = "check"]
                 \/ job' = Idle
    BY <1>3 DEF Status, Fail
  <2>2. Making /\ UNCHANGED <<store, bundle, handed, wire, me, round>>
    BY <1>3 DEF Status, Making
  <2>3. CallMoves
    BY <1>1, <2>1, <2>2 DEF CallMoves, JobFields
  <2> QED BY <2>2, <2>3, CallMoved
<1>4. CASE Check
  <2>1. Making /\ UNCHANGED <<store, bundle, handed, wire, me, round>>
    BY <1>4 DEF Check, Making
  <2>2. job' = [job EXCEPT !.pc = "replenish"] \/ job' = Idle
    BY <1>4 DEF Check, Fail
  <2>3. CallMoves
    BY <1>1, <2>1, <2>2 DEF CallMoves, JobFields
  <2> QED BY <2>1, <2>3, CallMoved
<1>5. CASE GiveUp
  BY <1>5, CallMoved DEF GiveUp, CallMoves
<1>6. CASE StartRegister
  BY <1>6, CallMoved DEF StartRegister, CallMoves
<1>7. CASE \E a \in Links : StartLink(a)
  BY <1>7, CallMoved DEF StartLink, CallMoves
<1>8. CASE ProvisionStep
  <2>1. Making /\ UNCHANGED <<store, bundle, handed, wire, me, round>>
    BY <1>8 DEF ProvisionStep, Making
  <2>2. PICK m : \/ job' = [job EXCEPT !.pc = "message"] \/ job' = Idle
                 \/ job' = [job EXCEPT !.pc = "replenish", !.message = m]
    BY <1>8, Zenon DEF ProvisionStep, EndLink
  <2>3. CallMoves
    BY <1>1, <2>1, <2>2 DEF CallMoves, JobFields
  <2> QED BY <2>1, <2>3, CallMoved
<1>9. CASE ProvisionFails
  BY <1>9, CallMoved DEF ProvisionFails, EndLink, CallMoves
<1>10. CASE \E r : LoseRequest(r)
  BY <1>10, CallMoved DEF LoseRequest, CallMoves
<1>11. CASE UNCHANGED <<store, bundle, wire, handed, job, me, round>>
  BY <1>11, CallMoved DEF CallMoves
<1> QED BY <1>2, <1>3, <1>4, <1>5, <1>6, <1>7, <1>8, <1>9, <1>10, <1>11

\* Keys that were made go out.
LEMMA KeysSent ==
    ASSUME PreKeysAssumption, NoneAssumption, CallInv, CallInv', KeysInv, NEW code,
           job.pc = "upload", Send(Request(code)),
           UNCHANGED <<store, bundle, handed, me, round>>
    PROVE  KeysInv'
<1>1. Running
  BY JobRuns DEF CallInv
<1>2. /\ job' = [job EXCEPT !.pc = "answer"] /\ wire' = wire \cup {Request(code)}
  BY DEF Send
<1>3. job'.pc = "answer"
  BY <1>1, <1>2 DEF Running, JobFields
<1>4. ~Making' /\ Making /\ job.left = <<>>
  BY <1>1, <1>3 DEF Making, Running, RefreshStage, ActivateStage
<1> DEFINE q == Request(code)
<1>5. q.kind = job.kind /\ q.dev = job.dev /\ q.round = job.round /\ q.keys = job.keys
  BY DEF Request
<1> HIDE DEF q
<1>6. \A r \in wire' : r \in wire \/ r = q
  BY <1>2 DEF q
<1>7. StoreOK'
  <2>1. \A i : Calls(i) = round /\ Calls(i)' = round
    BY <1>3, <1>4 DEF Calls
  <2> QED BY <2>1 DEF KeysInv, StoreOK, Stride
<1>8. PlacesOK'
  <2>1. \A i \in DOMAIN q.keys : Usable(store[i], q.keys[i])
    BY <1>4, <1>5 DEF KeysInv, PlacesOK
  <2>2. \A r \in wire' : \A i \in DOMAIN r.keys : Usable(store[i], r.keys[i])
    BY <1>6, <2>1 DEF KeysInv, PlacesOK
  <2> QED BY <1>4, <2>2 DEF KeysInv, PlacesOK, Usable, Holds
<1>9. RoundsOK'
  <2>1. \A n : Arrived(n) => Arrived(n)'
    BY <1>4, <1>5, <1>6 DEF Arrived
  <2>2. \A r \in wire' : \A i \in DOMAIN r.keys : \A k \in OneTime(r.keys[i]) :
          k.round = r.round /\ r.kind = "refresh"
    BY <1>4, <1>5, <1>6 DEF KeysInv, RoundsOK
  <2> QED BY <1>4, <2>1, <2>2 DEF KeysInv, RoundsOK, OneTime
<1>10. HandedOnce'
  BY DEF KeysInv, HandedOnce, Apart
<1> QED BY <1>7, <1>8, <1>9, <1>10 DEF KeysInv

\* A call that moves on or ends leaves what it may have saved.
LEMMA CallStays ==
    ASSUME PreKeysAssumption, CallInv, StoreOK, UNCHANGED <<store, round>>,
           job' = job \/ job' = Idle
    PROVE  StoreOK'
<1>1. ASSUME NEW i \in Identities, NEW id, NEW next, Behind(id, next, Calls(i) * Stride)
      PROVE  Behind(id, next, Calls(i)' * Stride)
  <2>1. CASE Calls(i)' = Calls(i)
    BY <1>1, <2>1
  <2>2. CASE Calls(i)' = round
    <3>1. Calls(i) \in Nat /\ round \in Nat /\ Calls(i) <= round
      BY CallsBound
    <3>2. PICK m \in Nat : m = Calls(i)
      BY <3>1
    <3>3. m * Stride \in Nat /\ round * Stride \in Nat /\ m * Stride <= round * Stride
      BY <3>1, <3>2, StrideMore
    <3> QED BY <1>1, <2>2, <3>2, <3>3, BehindMore
  <2> QED BY <2>1, <2>2 DEF Calls, Idle
<1> QED BY <1>1 DEF StoreOK, Stride

\* An upload puts keys at the server that the store holds.
LEMMA KeysUploaded ==
    ASSUME PreKeysAssumption, NoneAssumption, CallInv, CallInv', KeysInv, NEW r, ServeUpload(r)
    PROVE  KeysInv'
<1>1. /\ r \in wire /\ r.kind = "refresh" /\ wire' = wire \ {r}
      /\ UNCHANGED <<store, handed, me, round>>
      /\ job' = job \/ job' = Idle
  BY DEF ServeUpload
<1>2. /\ r.dev = me /\ me # None /\ me \in Devices
      /\ \A x \in Identities : bundle[me][x] # None
      /\ bundle[me] \in [Identities -> KeySet \cup {None}]
      /\ bundle \in [Devices -> [Identities -> KeySet \cup {None}]]
      /\ r.round \in 1..round /\ round \in Nat
  BY <1>1 DEF CallInv, WireOK, Types, ServedOK
<1>3. PICK i \in Identities : r.keys \in [{i} -> KeySet]
  BY <1>1 DEF CallInv, WireOK
<1> DEFINE b == Register(bundle[me], r.keys)
<1>4. bundle' = [bundle EXCEPT ![me] = b]
  BY <1>2 DEF ServeUpload
<1>5. Registered(bundle[me], i, r.keys, b)
  BY <1>2, <1>3, RegisterOne
<1> HIDE DEF b
<1>6. /\ b[i].ec = r.keys[i].ec /\ b[i].pq = r.keys[i].pq /\ b[i].signed = r.keys[i].signed
      /\ b[i].last = IF r.keys[i].last = None THEN bundle[me][i].last ELSE r.keys[i].last
      /\ \A x \in Identities : x # i => b[x] = bundle[me][x]
  BY <1>5 DEF Registered
<1>7. \A d \in Devices, x \in Identities :
         \/ d = me /\ x = i /\ bundle'[d][x] = b[i]
         \/ (d # me \/ x # i) /\ bundle'[d][x] = bundle[d][x]
  BY <1>2, <1>4, <1>6
<1>8. Making' => Making /\ job' = job
  BY <1>1 DEF Making, Idle
<1>9. \A n : Arrived(n) => Arrived(n)'
  BY <1>1, <1>8 DEF Arrived
<1>10. Arrived(r.round)'
  <2>1. \A q \in wire' : q.round # r.round
    BY <1>1 DEF CallInv, WireOK
  <2>2. Making' => job'.round # r.round
    BY <1>1, <1>8 DEF Making, CallInv, WireOK
  <2> QED BY <1>1, <1>2, <2>1, <2>2 DEF Arrived
<1>11. StoreOK'
  BY <1>1, CallStays DEF KeysInv
<1>12. PlacesOK'
  <2>1. Usable(store[i], b[i])
    <3>1. Usable(store[i], r.keys[i])
      BY <1>1, <1>3 DEF KeysInv, PlacesOK
    <3>2. Usable(store[i], bundle[me][i])
      BY <1>2, <1>3 DEF KeysInv, PlacesOK
    <3> QED BY <1>6, <3>1, <3>2 DEF Usable, Holds
  <2>2. \A d \in Devices, x \in Identities : bundle'[d][x] # None => Usable(store[x], bundle'[d][x])
    BY <1>7, <2>1 DEF KeysInv, PlacesOK
  <2>3. \A q \in wire' : \A x \in DOMAIN q.keys : Usable(store[x], q.keys[x])
    BY <1>1 DEF KeysInv, PlacesOK
  <2>4. Making' => \A x \in DOMAIN job'.keys : Usable(store[x], job'.keys[x])
    BY <1>8 DEF KeysInv, PlacesOK
  <2>5. \A s, k : Usable(s, k)' <=> Usable(s, k)
    BY DEF Usable, Holds
  <2> QED BY <1>1, <2>2, <2>3, <2>4 DEF KeysInv, PlacesOK, Usable, Holds
<1>13. \A k \in OneTime(b[i]) : k.round = r.round
  BY <1>1, <1>3, <1>6 DEF KeysInv, RoundsOK, OneTime
<1>14. RoundsOK'
  <2>1. \A d \in Devices, x \in Identities : bundle'[d][x] # None =>
          \A k \in OneTime(bundle'[d][x]) : Arrived(k.round)' /\ d = me'
    <3>1. \A k \in OneTime(b[i]) : Arrived(k.round)'
      BY <1>10, <1>13
    <3> QED BY <1>1, <1>7, <1>9, <3>1 DEF KeysInv, RoundsOK
  <2>2. \A h \in handed' : \A k \in OneTime(h.keys) : Arrived(k.round)'
    BY <1>1, <1>9 DEF KeysInv, RoundsOK
  <2>3. Making' => \A x \in DOMAIN job'.keys : \A k \in OneTime(job'.keys[x]) :
          k.round = job'.round /\ job'.kind = "refresh"
    BY <1>8 DEF KeysInv, RoundsOK
  <2> QED BY <1>1, <2>1, <2>2, <2>3 DEF KeysInv, RoundsOK, OneTime
<1>15. HandedOnce'
  <2>1. ASSUME NEW h \in handed, h.identity = i PROVE Apart(h.keys, b[i])
    <3>1. \A k \in OneTime(h.keys) : k.round # r.round
      BY <1>1 DEF KeysInv, RoundsOK, Arrived
    <3> QED BY <1>13, <3>1 DEF Apart, OneTime
  <2>2. \A h \in handed : h.identity \in Identities
    BY DEF KeysInv, PlacesOK
  <2>3. \A h \in handed : \A d \in Devices :
          bundle'[d][h.identity] # None => Apart(h.keys, bundle'[d][h.identity])
    BY <1>7, <2>1, <2>2 DEF KeysInv, HandedOnce
  <2> QED BY <1>1, <2>3 DEF KeysInv, HandedOnce, Apart
<1> QED BY <1>11, <1>12, <1>14, <1>15 DEF KeysInv

\* The server makes a device, or the account: there are no one-time keys yet.
LEMMA KeysActivated ==
    ASSUME PreKeysAssumption, NoneAssumption, CallInv, KeysInv, NEW r \in wire,
           r.kind # "refresh", NEW e \in Devices, r.keys \in [Identities -> KeySet],
           wire' = wire \ {r}, bundle' = [bundle EXCEPT ![e] = r.keys],
           UNCHANGED <<store, handed, round>>, job' = job \/ job' = Idle,
           me' = me \/ me = None
    PROVE  KeysInv'
<1>1. bundle \in [Devices -> [Identities -> KeySet \cup {None}]]
  BY DEF CallInv, Types
<1>2. \A d \in Devices, x \in Identities :
         \/ d = e /\ bundle'[d][x] = r.keys[x]
         \/ d # e /\ bundle'[d][x] = bundle[d][x]
  BY <1>1
<1>3. \A x \in Identities : /\ \A k : k \notin OneTime(r.keys[x])
                            /\ Usable(store[x], r.keys[x]) /\ r.keys[x] # None
  BY DEF KeysInv, PlacesOK, RoundsOK, NoneAssumption
<1>4. Making' => Making /\ job' = job
  BY DEF Making, Idle
<1>5. \A n : Arrived(n) => Arrived(n)'
  BY <1>4 DEF Arrived
<1>6. StoreOK'
  BY CallStays DEF KeysInv
<1>7. PlacesOK'
  <2>1. \A d \in Devices, x \in Identities : bundle'[d][x] # None => Usable(store[x], bundle'[d][x])
    BY <1>2, <1>3 DEF KeysInv, PlacesOK
  <2>2. Making' => \A x \in DOMAIN job'.keys : Usable(store[x], job'.keys[x])
    BY <1>4 DEF KeysInv, PlacesOK
  <2> QED BY <2>1, <2>2 DEF KeysInv, PlacesOK, Usable, Holds
<1>8. RoundsOK'
  <2>1. \A d \in Devices : d # None
    BY DEF Devices, NoneAssumption
  <2>2. \A d \in Devices, x \in Identities : bundle'[d][x] # None =>
          \A k \in OneTime(bundle'[d][x]) : Arrived(k.round)' /\ d = me'
    BY <1>2, <1>3, <1>5, <2>1 DEF KeysInv, RoundsOK
  <2>3. \A h \in handed' : \A k \in OneTime(h.keys) : Arrived(k.round)'
    BY <1>5 DEF KeysInv, RoundsOK
  <2>4. Making' => \A x \in DOMAIN job'.keys : \A k \in OneTime(job'.keys[x]) :
          k.round = job'.round /\ job'.kind = "refresh"
    BY <1>4 DEF KeysInv, RoundsOK
  <2> QED BY <2>2, <2>3, <2>4 DEF KeysInv, RoundsOK, OneTime
<1>9. HandedOnce'
  <2>1. \A h \in handed : h.identity \in Identities
    BY DEF KeysInv, PlacesOK
  <2>2. \A x \in Identities : \A k : Apart(k, r.keys[x])
    BY <1>3 DEF Apart, OneTime
  <2>3. \A h \in handed : \A d \in Devices :
          bundle'[d][h.identity] # None => Apart(h.keys, bundle'[d][h.identity])
    BY <1>2, <2>1, <2>2 DEF KeysInv, HandedOnce
  <2> QED BY <2>3 DEF KeysInv, HandedOnce, Apart
<1> QED BY <1>6, <1>7, <1>8, <1>9 DEF KeysInv

\* So do a link and a registration.
LEMMA LinkServed ==
    ASSUME PreKeysAssumption, NoneAssumption, CallInv, CallInv', KeysInv, NEW r,
           ServeLink(r) \/ ServeRegister(r)
    PROVE  KeysInv'
<1>1. /\ r \in wire /\ r.kind \in {"link", "register"} /\ wire' = wire \ {r}
      /\ UNCHANGED <<store, handed, round>>
      /\ job' = job \/ job' = Idle
  BY DEF ServeLink, ServeRegister, EndLink
<1>2. Awaited(r) => me = None
  <2>1. Awaited(r) => job.pc = "answer" /\ job.kind = r.kind
    BY <1>1 DEF CallInv, WireOK, Awaited
  <2>2. Awaited(r) => Running
    BY <2>1, JobRuns DEF CallInv
  <2> QED BY <1>1, <2>1, <2>2 DEF Running, ActivateStage
<1>3. me' = me \/ me = None
  BY <1>2 DEF ServeLink, ServeRegister
<1>4. r.keys \in [Identities -> KeySet] /\ (r.kind = "link" => r.dev \in Links)
  BY <1>1 DEF CallInv, WireOK
<1>5. CASE bundle' = bundle
  BY <1>1, <1>3, <1>5, CallMoved DEF CallMoves
<1>6. CASE r.kind = "link" /\ bundle' = [bundle EXCEPT ![r.dev] = r.keys]
  <2>1. r.dev \in Devices /\ r.kind # "refresh"
    BY <1>4, <1>6 DEF Devices
  <2> QED BY <1>1, <1>3, <1>4, <1>6, <2>1, KeysActivated
<1>7. CASE r.kind = "register" /\ bundle' = [bundle EXCEPT ![0] = r.keys]
  <2>1. 0 \in Devices
    BY DEF Devices
  <2> QED BY <1>1, <1>3, <1>4, <1>7, <2>1, KeysActivated
<1> QED BY <1>5, <1>6, <1>7 DEF ServeLink, ServeRegister

\* The one-time key a peer is handed is one of the bundle.
LEMMA FirstIn ==
    ASSUME NEW keys \in SUBSET Key
    PROVE  First(keys) \subseteq keys
<1>1. CASE keys = {}
  BY <1>1 DEF First
<1>2. CASE keys # {}
  <2> DEFINE T == {k.id : k \in keys}
  <2>1. T \in SUBSET Nat /\ T # {}
    BY <1>2 DEF Key
  <2>2. PICK n \in T : \A m \in T : n <= m
    BY <2>1, LeastNat
  <2>3. \E k \in keys : \A x \in keys : k.id <= x.id
    BY <2>2
  <2> QED BY <1>2, <2>3 DEF First
<1> QED BY <1>1, <1>2

\* A peer takes one-time keys, and nobody gets them again.
LEMMA KeysFetched ==
    ASSUME PreKeysAssumption, NoneAssumption, CallInv, KeysInv, NEW d \in Devices, NEW i \in Identities,
           Fetch(d, i)
    PROVE  KeysInv'
<1> DEFINE b == bundle[d][i]
           A == First(b.ec)
           B == First(b.pq)
           c == [b EXCEPT !.ec = @ \ A, !.pq = @ \ B]
           k == [ec |-> A, pq |-> B, signed |-> b.signed, last |-> IF b.pq = {} THEN b.last ELSE None]
           h == [dev |-> d, identity |-> i, n |-> fetches, keys |-> k]
<1>1. /\ b # None /\ UNCHANGED <<store, wire, job, me, round>>
      /\ bundle' = [bundle EXCEPT ![d][i].ec = @ \ A, ![d][i].pq = @ \ B]
      /\ handed' = handed \cup {h}
  BY DEF Fetch
<1>2. /\ bundle \in [Devices -> [Identities -> KeySet \cup {None}]] /\ b \in KeySet
  BY <1>1 DEF CallInv, Types
<1>3. bundle' = [bundle EXCEPT ![d] = [@ EXCEPT ![i] = c]]
  BY <1>1, <1>2
<1>4. h.identity = i /\ h.keys = k
  OBVIOUS
<1> HIDE DEF h, b
<1>5. /\ b = [f \in {"ec", "pq", "signed", "last"} |-> b[f]]
      /\ b.ec \subseteq Key /\ b.pq \subseteq Key /\ b.signed \in Key /\ b.last \in Key \cup {None}
  BY <1>2 DEF KeySet
<1>6. A \subseteq b.ec /\ B \subseteq b.pq
  BY <1>5, FirstIn
<1> HIDE DEF A, B
<1>7. /\ c.ec = b.ec \ A /\ c.pq = b.pq \ B /\ c.signed = b.signed /\ c.last = b.last
      /\ k.ec = A /\ k.pq = B /\ k.signed = b.signed /\ k.last \in {b.last, None}
  BY <1>5
<1>8. k \in KeySet
  BY <1>5, <1>6 DEF KeySet
<1> HIDE DEF c, k
<1>9. \A e \in Devices, x \in Identities :
         \/ e = d /\ x = i /\ bundle'[e][x] = c /\ bundle[e][x] = b
         \/ (e # d \/ x # i) /\ bundle'[e][x] = bundle[e][x]
  BY <1>2, <1>3 DEF b
<1>10. Usable(store[i], b) /\ Usable(store[i], c) /\ Usable(store[i], k)
  <2>1. Usable(store[i], b)
    BY <1>1 DEF KeysInv, PlacesOK, b
  <2> QED BY <1>6, <1>7, <2>1 DEF Usable, Holds
<1>11. StoreOK'
  BY <1>1, CallStays DEF KeysInv
<1>12. PlacesOK'
  <2>1. \A e \in Devices, x \in Identities : bundle'[e][x] # None => Usable(store[x], bundle'[e][x])
    BY <1>9, <1>10 DEF KeysInv, PlacesOK
  <2>2. \A g \in handed' : /\ g.identity \in Identities /\ g.keys \in KeySet
                           /\ Usable(store[g.identity], g.keys)
    BY <1>1, <1>4, <1>8, <1>10 DEF KeysInv, PlacesOK
  <2>3. Making' => Making /\ job' = job
    BY <1>1 DEF Making
  <2> QED BY <1>1, <2>1, <2>2, <2>3 DEF KeysInv, PlacesOK
<1>13. \A n : Arrived(n)' <=> Arrived(n)
  BY <1>1 DEF Arrived, Making
<1>14. \A x \in OneTime(b) : Arrived(x.round) /\ d = me
  BY <1>1 DEF KeysInv, RoundsOK, b
<1>15. RoundsOK'
  <2>1. \A e \in Devices, x \in Identities : bundle'[e][x] # None =>
          \A z \in OneTime(bundle'[e][x]) : Arrived(z.round)' /\ e = me'
    <3>1. \A z \in OneTime(c) : z \in OneTime(b)
      BY <1>7 DEF OneTime
    <3>2. ASSUME NEW e \in Devices, NEW x \in Identities, bundle'[e][x] # None,
                 NEW z \in OneTime(bundle'[e][x])
          PROVE  Arrived(z.round) /\ e = me
      <4>1. CASE e = d /\ x = i /\ bundle'[e][x] = c
        BY <1>14, <3>1, <3>2, <4>1
      <4>2. CASE bundle'[e][x] = bundle[e][x]
        BY <3>2, <4>2 DEF KeysInv, RoundsOK
      <4> QED BY <1>9, <4>1, <4>2
    <3> QED BY <1>1, <1>13, <3>2
  <2>2. \A g \in handed' : \A z \in OneTime(g.keys) : Arrived(z.round)'
    <3>1. \A z \in OneTime(k) : z \in OneTime(b)
      BY <1>6, <1>7 DEF OneTime
    <3> QED BY <1>1, <1>4, <1>13, <1>14, <3>1 DEF KeysInv, RoundsOK
  <2> QED BY <1>1, <2>1, <2>2 DEF KeysInv, RoundsOK, OneTime, Making
<1>16. HandedOnce'
  <2>1. \A e \in Devices : e # d /\ bundle[e][i] # None => Apart(k, bundle[e][i])
    <3>1. ASSUME NEW e \in Devices, e # d, bundle[e][i] # None PROVE Apart(k, bundle[e][i])
      <4>1. \A z \in OneTime(bundle[e][i]) : e = me
        BY <3>1 DEF KeysInv, RoundsOK
      <4>2. \A z \in OneTime(k) : d = me
        BY <1>6, <1>7, <1>14 DEF OneTime
      <4> QED BY <3>1, <4>1, <4>2 DEF Apart, OneTime
    <3> QED BY <3>1
  <2>2. Apart(k, c)
    BY <1>7 DEF Apart
  <2>3. \A g \in handed : g.identity \in Identities /\ (g.identity = i => Apart(g.keys, b))
    BY <1>1 DEF KeysInv, HandedOnce, PlacesOK, b
  <2>4. \A g \in handed : g.identity = i => Apart(g.keys, k) /\ Apart(k, g.keys) /\ Apart(g.keys, c)
    BY <1>6, <1>7, <2>3 DEF Apart
  <2>5. ASSUME NEW g \in handed', NEW f \in handed', g # f, g.identity = f.identity
        PROVE  Apart(g.keys, f.keys)
    <3>1. (g \in handed \/ g = h) /\ (f \in handed \/ f = h)
      BY <1>1
    <3> QED BY <1>4, <2>4, <2>5, <3>1 DEF KeysInv, HandedOnce
  <2>6. ASSUME NEW g \in handed', NEW e \in Devices, bundle'[e][g.identity] # None
        PROVE  Apart(g.keys, bundle'[e][g.identity])
    <3>1. CASE g \in handed
      BY <1>9, <2>3, <2>4, <2>6, <3>1 DEF KeysInv, HandedOnce
    <3>2. CASE g = h
      BY <1>4, <1>9, <2>1, <2>2, <2>6, <3>2
    <3> QED BY <1>1, <3>1, <3>2
  <2> QED BY <2>5, <2>6 DEF HandedOnce, Apart
<1> QED BY <1>11, <1>12, <1>15, <1>16 DEF KeysInv

\* A message arrives: only the keys it used go.
LEMMA KeysUsed ==
    ASSUME PreKeysAssumption, NoneAssumption, CallInv, KeysInv, NEW h \in handed, Receive(h)
    PROVE  KeysInv'
<1> DEFINE i == h.identity
           s == store[i]
           t == store'[i]
<1>1. /\ handed' = handed \ {h} /\ UNCHANGED <<bundle, wire, job, me, round>>
      /\ store' = [store EXCEPT ![i].ec = @ \ h.keys.ec, ![i].pq = @ \ h.keys.pq]
  BY DEF Receive
<1>2. i \in Identities /\ store \in [Identities -> Store] /\ s \in Store
  BY DEF KeysInv, PlacesOK, CallInv, Types
<1>3. /\ t.ec = s.ec \ h.keys.ec /\ t.pq = s.pq \ h.keys.pq
      /\ t.signed = s.signed /\ t.last = s.last /\ t.next = s.next
      /\ \A x \in Identities : x # i => store'[x] = store[x]
  <2> DEFINE u == [s EXCEPT !.ec = @ \ h.keys.ec, !.pq = @ \ h.keys.pq]
  <2> HIDE DEF t
  <2>1. store' = [store EXCEPT ![i] = u]
    BY <1>1, <1>2
  <2>2. s = [f \in {"ec", "pq", "signed", "last", "next"} |-> s[f]]
    BY <1>2 DEF Store
  <2>3. t = [s EXCEPT !.ec = @ \ h.keys.ec, !.pq = @ \ h.keys.pq]
    <3> HIDE DEF u
    <3>1. t = u
      BY <1>2, <2>1 DEF t
    <3> QED BY <3>1 DEF u
  <2>4. \A x \in Identities : x # i => store'[x] = store[x]
    BY <1>2, <2>1
  <2> HIDE DEF s, t
  <2> QED BY <2>2, <2>3, <2>4
<1>4. \A x \in h.keys.pq : x \notin Range(s.last)
  BY DEF KeysInv, PlacesOK, Usable
<1>5. ASSUME NEW x \in Identities, NEW k, Usable(store[x], k), x = i => Apart(h.keys, k)
      PROVE  Usable(store'[x], k)
  <2>1. CASE x # i
    BY <1>3, <1>5, <2>1
  <2>2. CASE x = i
    <3>1. Usable(s, k) /\ Apart(h.keys, k)
      BY <1>5, <2>2
    <3> HIDE DEF s, t
    <3>2. Usable(t, k)
      BY <1>3, <1>4, <3>1 DEF Usable, Holds, Apart
    <3> QED BY <2>2, <3>2 DEF t
  <2> QED BY <2>1, <2>2
<1>6. \A x : Calls(x)' = Calls(x)
  BY <1>1 DEF Calls
<1>7. StoreOK'
  <2>1. ASSUME NEW x \in Identities
        PROVE  /\ store'[x].next = store[x].next /\ store'[x].ec \subseteq store[x].ec
               /\ store'[x].pq \subseteq store[x].pq /\ Range(store'[x].last) \subseteq store'[x].pq
    <3>1. Range(store[x].last) \subseteq store[x].pq
      BY DEF KeysInv, StoreOK
    <3>2. CASE x # i
      BY <1>3, <3>1, <3>2
    <3>3. CASE x = i
      BY <1>3, <1>4, <3>1, <3>3
    <3> QED BY <3>2, <3>3
  <2> QED BY <1>6, <2>1 DEF KeysInv, StoreOK, Stride
<1>8. \A k \in OneTime(h.keys) : Arrived(k.round)
  BY DEF KeysInv, RoundsOK
<1>9. PlacesOK'
  <2>1. \A d \in Devices, x \in Identities : bundle[d][x] # None => Usable(store'[x], bundle[d][x])
    BY <1>5 DEF KeysInv, PlacesOK, HandedOnce
  <2>2. \A g \in handed' : /\ g.identity \in Identities /\ g.keys \in KeySet
                           /\ Usable(store'[g.identity], g.keys)
    BY <1>1, <1>5 DEF KeysInv, PlacesOK, HandedOnce
  <2>3. ASSUME NEW r \in wire, NEW x \in DOMAIN r.keys PROVE Usable(store'[x], r.keys[x])
    <3>1. x \in Identities
      BY DEF CallInv, WireOK
    <3>2. Apart(h.keys, r.keys[x])
      BY <1>8 DEF KeysInv, RoundsOK, Arrived, Apart, OneTime
    <3> QED BY <1>5, <3>1, <3>2 DEF KeysInv, PlacesOK
  <2>4. ASSUME Making, NEW x \in DOMAIN job.keys PROVE Usable(store'[x], job.keys[x])
    <3>1. Running
      BY <2>4, JobRuns DEF CallInv, Making
    <3>2. x \in Identities
      BY <3>1 DEF Running, RefreshStage, ActivateStage, PreKeysAssumption
    <3>3. Apart(h.keys, job.keys[x])
      BY <1>8, <2>4 DEF KeysInv, RoundsOK, Arrived, Apart, OneTime
    <3> QED BY <1>5, <2>4, <3>2, <3>3 DEF KeysInv, PlacesOK
  <2> QED BY <1>1, <2>1, <2>2, <2>3, <2>4 DEF PlacesOK, Making, Usable, Holds
<1>10. RoundsOK'
  <2>1. \A n : Arrived(n)' <=> Arrived(n)
    BY <1>1 DEF Arrived, Making
  <2> QED BY <1>1, <2>1 DEF KeysInv, RoundsOK, OneTime, Making
<1>11. HandedOnce'
  BY <1>1 DEF KeysInv, HandedOnce, Apart
<1> QED BY <1>7, <1>9, <1>10, <1>11 DEF KeysInv

\* The n-th id after o, around the end of the range.
LEMMA ModStep ==
    ASSUME NEW a \in Nat, NEW m \in Nat, m > 0, a < 2 * m
    PROVE  a % m = IF a < m THEN a ELSE a - m
<1>1. a % m = a - m * (a \div m) /\ a \div m \in Nat /\ a % m \in 0..(m - 1)
  OBVIOUS
<1> DEFINE q == a \div m
<1>2. q \in Nat /\ m * q \in Nat /\ a % m = a - m * q
  BY <1>1
<1> HIDE DEF q
<1>3. CASE q = 0
  BY <1>1, <1>2, <1>3
<1>4. CASE q = 1
  BY <1>1, <1>2, <1>4
<1>5. CASE q >= 2
  <2>1. PICK e \in Nat : q = 2 + e
    <3>1. q - 2 \in Nat /\ q = 2 + (q - 2)
      BY <1>2, <1>5
    <3> QED BY <3>1
  <2>2. m * (2 + e) = 2 * m + m * e /\ m * e \in Nat
    OBVIOUS
  <2> QED BY <1>1, <1>2, <2>1, <2>2
<1> QED BY <1>2, <1>3, <1>4, <1>5

\* The ids of a batch, with the one that is skipped at the wrap.
LEMMA IdAfter ==
    ASSUME PreKeysAssumption, Stride < MediumMax - 1, NEW o \in 1..MediumMax, NEW n \in 0..Batch
    PROVE  PreKeyId(o, n) = IF o + n < MediumMax - 1 THEN o + n + 1 ELSE o + n + 2 - MediumMax
<1> DEFINE m == MediumMax - 1
           a == o + n
<1>1. Batch \in Nat /\ MediumMax \in Nat /\ Batch + 2 < MediumMax - 1
  BY DEF PreKeysAssumption, Stride
<1>2. m \in Nat /\ m > 0 /\ a \in Nat /\ a < 2 * m
  BY <1>1
<1>3. PreKeyId(o, n) = (a % m) + 1
  BY DEF PreKeyId
<1>4. a % m = IF a < m THEN a ELSE a - m
  <2> HIDE DEF a, m
  <2> QED BY <1>2, ModStep
<1> QED BY <1>1, <1>2, <1>3, <1>4

\* What a call makes of the keys of one sort: J are its saves, p the place of each
\* in the batch.
Slot(old, saves, J, p, o) ==
    /\ p \in [J -> 0..Batch]
    /\ \A j \in J : saves[j].key.id = PreKeyId(o, p[j])
    /\ \A j, k \in J : k <= j => p[k] <= p[j]

SlotOK(old, new, saves, J, next, span) ==
    /\ next \in 1..MediumMax
    /\ \A k \in new : Behind(k.id, next, span)
    /\ old \subseteq new
    /\ \A j \in J : \A x \in old : saves[j].key.id # x.id

\* A batch overwrites no key that lies less than a lap behind.
LEMMA SlotRefilled ==
    ASSUME PreKeysAssumption, NEW old, NEW new, NEW saves, NEW J \in SUBSET Nat, NEW p,
           NEW o \in 1..MediumMax, NEW next, NEW span \in Nat, span + Stride < MediumMax - 1,
           Slot(old, saves, J, p, o), Kept(old, new, saves, J), NextId(o, next, saves, J),
           \A k \in old : Behind(k.id, o, span)
    PROVE  SlotOK(old, new, saves, J, next, span + Stride)
<1>1. Batch \in Nat /\ MediumMax \in Nat /\ Stride = Batch + 2 /\ Stride < MediumMax - 1
  BY DEF PreKeysAssumption, Stride
<1>2. \A j \in J : /\ p[j] \in 0..Batch
                   /\ saves[j].key.id = IF o + p[j] < MediumMax - 1 THEN o + p[j] + 1
                                        ELSE o + p[j] + 2 - MediumMax
  BY <1>1, IdAfter DEF Slot
<1>3. ASSUME NEW j \in J, NEW x \in old PROVE saves[j].key.id # x.id
  <2>1. PICK d \in 1..span : x.id + d = o \/ x.id + d = o + (MediumMax - 1)
    BY DEF Behind
  <2>2. x.id \in 1..(MediumMax - 1)
    BY DEF Behind
  <2> QED BY <1>1, <1>2, <2>1, <2>2
<1>4. old \subseteq new
  BY <1>3 DEF Kept
<1>5. CASE J = {}
  <2>1. next = o /\ new \subseteq old
    BY <1>5 DEF NextId, Kept
  <2>2. \A k \in new : Behind(k.id, next, span + Stride)
    <3>1. span + Stride \in Nat /\ span <= span + Stride
      BY <1>1
    <3> QED BY <2>1, <3>1, BehindMore
  <2> QED BY <1>3, <1>4, <2>1, <2>2 DEF SlotOK
<1>6. CASE J # {}
  <2>1. PICK j \in J : next = saves[j].key.id + 1 /\ \A k \in J : k <= j
    BY <1>6 DEF NextId
  <2>2. next \in 1..MediumMax
    BY <1>1, <1>2, <2>1
  <2>3. ASSUME NEW k \in new PROVE Behind(k.id, next, span + Stride)
    <3>1. CASE k \in old
      <4>1. PICK d \in 1..span : k.id + d = o \/ k.id + d = o + (MediumMax - 1)
        BY <3>1 DEF Behind
      <4>2. k.id \in 1..(MediumMax - 1)
        BY <3>1 DEF Behind
      <4> DEFINE e == d + p[j] + 2
      <4>3. p[j] \in 0..Batch /\ e \in 1..(span + Stride)
        BY <1>1, <1>2
      <4>4. k.id + e = next \/ k.id + e = next + (MediumMax - 1)
        BY <1>1, <1>2, <2>1, <4>1, <4>2, <4>3
      <4> QED BY <4>2, <4>3, <4>4 DEF Behind
    <3>2. CASE \E m \in J : k = saves[m].key
      <4>1. PICK m \in J : k = saves[m].key
        BY <3>2
      <4> DEFINE e == p[j] - p[m] + 1
      <4>2. p[m] <= p[j] /\ p[m] \in 0..Batch /\ p[j] \in 0..Batch
        BY <1>2, <2>1 DEF Slot
      <4>3. e \in 1..(span + Stride) /\ k.id \in 1..(MediumMax - 1)
        BY <1>1, <1>2, <4>1, <4>2
      <4>4. k.id + e = next \/ k.id + e = next + (MediumMax - 1)
        BY <1>1, <1>2, <2>1, <4>1, <4>2
      <4> QED BY <4>3, <4>4 DEF Behind
    <3> QED BY <3>1, <3>2 DEF Kept
  <2> QED BY <1>3, <1>4, <2>2, <2>3 DEF SlotOK
<1> QED BY <1>5, <1>6

\* A store after a call, cut short or not, that did not come round to its old keys.
Refilled(s, b, saves, n, span) ==
    /\ SlotOK(s.ec, b.ec, saves, EcSaves(saves, n), b.next.ec, span)
    /\ SlotOK(s.pq, b.pq, saves, PqSaves(saves, n), b.next.pq, span)
    /\ Range(s.signed) \subseteq Range(b.signed)
    /\ Range(s.last) \subseteq Range(b.last)
    /\ \A x \in Range(b.last) : x \in Range(s.last)
                                \/ \E j \in PqSaves(saves, n) : saves[j].slot = "last" /\ x = saves[j].key

\* What an appended sequence holds.
LEMMA AppendRange ==
    ASSUME NEW S, NEW q \in Seq(S), NEW x \in S
    PROVE  \A y : y \in Range(Append(q, x)) <=> y \in Range(q) \/ y = x
<1>1. PICK t : t = Append(q, x)
  OBVIOUS
<1>2. Extended(q, t, x)
  BY <1>1, AppendExtends
<1>3. \A y : y \in Range(t) <=> y \in Range(q) \/ y = x
  BY <1>2 DEF Extended, Range
<1> QED BY <1>1, <1>3

\* Within a lap a replenishment, complete or not, only adds keys.
LEMMA StoreRefilled ==
    ASSUME PreKeysAssumption, NEW s \in Store, NEW use \in BOOLEAN, NEW count \in 0..Batch,
           NEW r \in Nat, NEW saves, Shape(saves, s, use, count, r),
           NEW n \in 0..Len(saves), NEW b, Result(s, saves, n, b),
           NEW span \in Nat, span + Stride < MediumMax - 1,
           s.next.ec \in 1..MediumMax, s.next.pq \in 1..MediumMax,
           \A k \in s.ec : Behind(k.id, s.next.ec, span),
           \A k \in s.pq : Behind(k.id, s.next.pq, span)
    PROVE  Refilled(s, b, saves, n, span + Stride)
<1>1. count \in Nat /\ Batch \in Nat /\ count <= Batch
  BY DEF PreKeysAssumption
<1>2. saves \in Seq(SaveType) /\ Len(saves) \in Nat /\ DOMAIN saves = 1..Len(saves) /\ 1..n \subseteq DOMAIN saves
  BY DEF Shape
<1>3. \A j \in 1..n : Place(saves, s, use, count, r, j)
  BY <1>2, SavesPlaces
<1>4. SlotOK(s.ec, b.ec, saves, EcSaves(saves, n), b.next.ec, span + Stride)
  <2> DEFINE J == EcSaves(saves, n)
             p == [j \in J |-> j - 1]
  <2>1. J \in SUBSET Nat /\ \A j \in J : j \in 1..n /\ j \in 1..count
                                         /\ saves[j].key.id = PreKeyId(s.next.ec, j - 1)
    BY <1>2, <1>3 DEF EcSaves, Place
  <2>2. Slot(s.ec, saves, J, p, s.next.ec)
    <3> HIDE DEF J
    <3> QED BY <1>1, <2>1 DEF Slot
  <2>3. Kept(s.ec, b.ec, saves, J) /\ NextId(s.next.ec, b.next.ec, saves, J)
    BY DEF Result
  <2> HIDE DEF J, p
  <2>4. SlotOK(s.ec, b.ec, saves, J, b.next.ec, span + Stride)
    BY <2>1, <2>2, <2>3, SlotRefilled
  <2> QED BY <2>4 DEF J
<1>5. SlotOK(s.pq, b.pq, saves, PqSaves(saves, n), b.next.pq, span + Stride)
  <2> DEFINE J == PqSaves(saves, n)
             p == [j \in J |-> IF saves[j].slot = "last" THEN count ELSE j - count - 1]
  <2>1. J \in SUBSET Nat
    BY <1>2 DEF PqSaves
  <2>2. \A j \in J : \/ /\ saves[j].slot = "last" /\ j = 2 * count + 2
                        /\ saves[j].key.id = PreKeyId(s.next.pq, count)
                     \/ /\ saves[j].slot # "last" /\ j \in (count + 1)..(2 * count)
                        /\ saves[j].key.id = PreKeyId(s.next.pq, j - count - 1)
    BY <1>3 DEF PqSaves, Place
  <2>3. Slot(s.pq, saves, J, p, s.next.pq)
    <3> HIDE DEF J
    <3>1. p \in [J -> 0..Batch]
      BY <1>1, <2>1, <2>2
    <3>2. \A j \in J : saves[j].key.id = PreKeyId(s.next.pq, p[j])
      BY <1>1, <2>1, <2>2
    <3>3. ASSUME NEW j \in J, NEW k \in J, k <= j PROVE p[k] <= p[j]
      <4>1. j \in Nat /\ k \in Nat
        BY <2>1
      <4>2. /\ p[j] = IF saves[j].slot = "last" THEN count ELSE j - count - 1
            /\ p[k] = IF saves[k].slot = "last" THEN count ELSE k - count - 1
        OBVIOUS
      <4>3. CASE saves[k].slot = "last"
        <5>1. k = 2 * count + 2 /\ j \notin (count + 1)..(2 * count)
          BY <1>1, <2>2, <3>3, <4>1, <4>3
        <5>2. saves[j].slot = "last"
          BY <2>2, <5>1
        <5> QED BY <1>1, <4>2, <4>3, <5>2
      <4>4. CASE saves[k].slot # "last"
        <5>1. k \in (count + 1)..(2 * count)
          BY <2>2, <4>4
        <5> QED BY <1>1, <3>3, <4>1, <4>2, <4>4, <5>1
      <4> QED BY <4>3, <4>4
    <3> QED BY <3>1, <3>2, <3>3 DEF Slot
  <2>4. Kept(s.pq, b.pq, saves, J) /\ NextId(s.next.pq, b.next.pq, saves, J)
    BY DEF Result
  <2> HIDE DEF J, p
  <2>5. SlotOK(s.pq, b.pq, saves, J, b.next.pq, span + Stride)
    BY <2>1, <2>3, <2>4, SlotRefilled
  <2> QED BY <2>5 DEF J
<1>6. s.signed \in Seq(Key) /\ s.last \in Seq(Key)
  BY DEF Store
<1>7. \A j \in 1..n : saves[j].key \in Key
  <2>1. \A j \in 1..n : saves[j] \in SaveType
    BY <1>2
  <2> QED BY <2>1 DEF SaveType
<1>8. Range(s.signed) \subseteq Range(b.signed)
  <2>1. CASE b.signed = s.signed
    BY <2>1
  <2>2. CASE \E j \in 1..n : b.signed = Append(s.signed, saves[j].key)
    BY <1>6, <1>7, <2>2, AppendRange
  <2> QED BY <2>1, <2>2 DEF Result, Appended
<1>9. /\ Range(s.last) \subseteq Range(b.last)
      /\ \A x \in Range(b.last) : x \in Range(s.last)
                                  \/ \E j \in PqSaves(saves, n) : saves[j].slot = "last" /\ x = saves[j].key
  <2>1. CASE b.last = s.last
    BY <2>1
  <2>2. CASE \E j \in 1..n : saves[j].slot = "last" /\ b.last = Append(s.last, saves[j].key)
    <3>1. PICK j \in 1..n : saves[j].slot = "last" /\ b.last = Append(s.last, saves[j].key)
      BY <2>2
    <3>2. j \in PqSaves(saves, n)
      BY <3>1 DEF PqSaves
    <3>3. \A y : y \in Range(b.last) <=> y \in Range(s.last) \/ y = saves[j].key
      BY <1>6, <1>7, <3>1, AppendRange
    <3> QED BY <3>1, <3>2, <3>3
  <2> QED BY <2>1, <2>2 DEF Result, Appended
<1> QED BY <1>4, <1>5, <1>8, <1>9 DEF Refilled

\* The keys a call gives its caller are held, and its last resort key is none of the
\* others.
Fresh(k, s, saves, use, count) ==
    /\ k.ec \subseteq {saves[j].key : j \in 1..count}
    /\ k.pq \subseteq {saves[j].key : j \in (count + 1)..(2 * count)}
    /\ k.signed = saves[2 * count + 1].key
    /\ \/ use /\ k.last = saves[2 * count + 2].key
       \/ ~use /\ k.last \in Range(s.last)

\* The key sets made from a complete replenishment can be used.
LEMMA FreshUsable ==
    ASSUME PreKeysAssumption, NEW s \in Store, NEW use \in BOOLEAN, NEW count \in 0..Batch,
           NEW r \in Nat, NEW saves, Shape(saves, s, use, count, r),
           NEW b, Result(s, saves, Len(saves), b),
           NEW span, Refilled(s, b, saves, Len(saves), span),
           Range(s.last) \subseteq s.pq,
           NEW k, Fresh(k, s, saves, use, count)
    PROVE  Usable(b, k)
<1>1. count \in Nat
  BY DEF PreKeysAssumption
<1>2. /\ saves \in Seq(SaveType) /\ Len(saves) = LastPlace(use, count) /\ Len(saves) \in Nat
      /\ DOMAIN saves = 1..Len(saves)
  BY DEF Shape
<1>3. \A j \in 1..Len(saves) : Place(saves, s, use, count, r, j)
  BY <1>2, SavesPlaces
<1>4. /\ \A j \in 1..count : j \in EcSaves(saves, Len(saves))
      /\ \A j \in (count + 1)..(2 * count) : j \in PqSaves(saves, Len(saves)) /\ saves[j].slot = "pq"
      /\ 2 * count + 1 \in 1..Len(saves)
      /\ use => 2 * count + 2 \in PqSaves(saves, Len(saves))
  <2>1. /\ 1..count \subseteq 1..Len(saves) /\ (count + 1)..(2 * count) \subseteq 1..Len(saves)
        /\ 2 * count + 1 \in 1..Len(saves) /\ (use => 2 * count + 2 \in 1..Len(saves))
    BY <1>1, <1>2 DEF LastPlace
  <2> QED BY <1>3, <2>1 DEF EcSaves, PqSaves, Place
<1>5. Ends(s, saves, use, count, b)
  BY CallEnds
<1>6. s.signed \in Seq(Key) /\ s.last \in Seq(Key)
  BY DEF Store
<1>7. \A j \in 1..Len(saves) : saves[j].key \in Key
  <2>1. \A j \in 1..Len(saves) : saves[j] \in SaveType
    BY <1>2
  <2> QED BY <2>1 DEF SaveType
<1>8. k.ec \subseteq b.ec /\ k.pq \subseteq b.pq
  <2>1. ASSUME NEW x \in k.ec PROVE x \in b.ec
    <3>1. PICK j \in 1..count : x = saves[j].key
      BY DEF Fresh
    <3> QED BY <1>4, <3>1 DEF Result, Kept
  <2>2. ASSUME NEW x \in k.pq PROVE x \in b.pq
    <3>1. PICK j \in (count + 1)..(2 * count) : x = saves[j].key
      BY DEF Fresh
    <3> QED BY <1>4, <3>1 DEF Result, Kept
  <2> QED BY <2>1, <2>2
<1>9. k.signed \in Range(b.signed)
  <2>1. b.signed = Append(s.signed, saves[2 * count + 1].key)
    BY <1>5 DEF Ends
  <2> QED BY <1>4, <1>6, <1>7, <2>1, AppendRange DEF Fresh
<1>10. k.last \in Range(b.last) /\ k.last \in b.pq
  <2>1. CASE use
    <3>1. b.last = Append(s.last, saves[2 * count + 2].key) /\ k.last = saves[2 * count + 2].key
      BY <1>5, <2>1 DEF Ends, Fresh
    <3>2. 2 * count + 2 \in PqSaves(saves, Len(saves)) /\ 2 * count + 2 \in 1..Len(saves)
      BY <1>4, <2>1 DEF PqSaves
    <3>3. k.last \in Range(b.last)
      BY <1>6, <1>7, <3>1, <3>2, AppendRange
    <3> QED BY <3>1, <3>2, <3>3 DEF Result, Kept
  <2>2. CASE ~use
    <3>1. k.last \in Range(s.last)
      BY <2>2 DEF Fresh
    <3> QED BY <3>1 DEF Refilled, SlotOK
  <2> QED BY <2>1, <2>2
<1>11. ASSUME NEW x \in k.pq, x \in Range(b.last) PROVE FALSE
  <2>1. PICK j \in (count + 1)..(2 * count) : x = saves[j].key
    BY DEF Fresh
  <2>2. j \in PqSaves(saves, Len(saves)) /\ saves[j].slot = "pq"
    BY <1>4
  <2>3. \A y \in s.pq : y # x
    BY <2>1, <2>2 DEF Refilled, SlotOK
  <2>4. PICK m \in PqSaves(saves, Len(saves)) : saves[m].slot = "last" /\ x = saves[m].key
    BY <1>11, <2>3 DEF Refilled
  <2>5. Distinct(saves)
    BY SavesDistinct
  <2> QED BY <1>2, <2>1, <2>2, <2>4, <2>5 DEF Distinct, PqSaves
<1> QED BY <1>8, <1>9, <1>10, <1>11 DEF Usable, Holds

\* A replenishment keeps what peers may use.
LEMMA KeysReplenished ==
    ASSUME PreKeysAssumption, NoneAssumption, CallInv, CallInv', KeysInv, NotLapped, Replenish
    PROVE  KeysInv'
<1>1. Running /\ job.pc = "replenish" /\ Making
  BY JobRuns DEF Replenish, CallInv, Making
<1>2. PICK i, use, saves, n : Refills(i, use, saves, n)
  BY ReplenishRefills
<1>3. UNCHANGED <<bundle, wire, handed, me, round>>
  BY DEF Replenish
<1> DEFINE s == store[i]
           b == Saved(s, saves, n)
<1>4. /\ i \in Identities /\ s \in Store /\ store \in [Identities -> Store]
      /\ use \in BOOLEAN /\ n \in 0..Len(saves) /\ i = Head(job.left)
      /\ Shape(saves, s, use, job.count, job.round) /\ Result(s, saves, n, b)
      /\ store' = [store EXCEPT ![i] = b]
  BY <1>2 DEF Refills, CallInv, Types
<1>5. /\ job.count \in 0..Batch /\ job.round \in Nat /\ round \in Nat /\ round > 0 /\ job.round = round
      /\ job.kind = "refresh" => job.count = Batch
  BY <1>1 DEF Running, RefreshStage, ActivateStage, CallInv, Types, PreKeysAssumption
<1> HIDE DEF b
<1>6. store'[i] = b /\ \A x \in Identities : x # i => store'[x] = store[x]
  BY <1>4
<1>7. Refilled(s, b, saves, n, round * Stride)
  <2>1. Calls(i) = round - 1
    <3>1. \E j \in DOMAIN job.left : job.left[j] = i
      BY <1>1, <1>4 DEF Running, RefreshStage, ActivateStage
    <3> QED BY <1>1, <3>1 DEF Calls
  <2> DEFINE span == (round - 1) * Stride
  <2>2. span \in Nat /\ span + Stride = round * Stride
    <3>1. PICK w \in Nat : w = Stride
      BY DEF Stride, PreKeysAssumption
    <3>2. PICK m \in Nat : round = m + 1
      <4>1. round - 1 \in Nat /\ round = (round - 1) + 1
        BY <1>5
      <4> QED BY <4>1
    <3>3. (m + 1) * w = m * w + w /\ m * w \in Nat
      OBVIOUS
    <3>4. round - 1 = m
      BY <3>2
    <3> QED BY <3>1, <3>2, <3>3, <3>4
  <2>3. /\ s.next.ec \in 1..MediumMax /\ s.next.pq \in 1..MediumMax
        /\ \A k \in s.ec : Behind(k.id, s.next.ec, span)
        /\ \A k \in s.pq : Behind(k.id, s.next.pq, span)
    BY <1>4, <2>1 DEF KeysInv, StoreOK
  <2>4. span + Stride < MediumMax - 1
    BY <2>2 DEF NotLapped
  <2> HIDE DEF span, s
  <2>5. Refilled(s, b, saves, n, span + Stride)
    BY <1>4, <1>5, <2>2, <2>3, <2>4, StoreRefilled
  <2> QED BY <2>2, <2>5
<1>8. Range(s.last) \subseteq s.pq
  BY <1>4 DEF KeysInv, StoreOK
<1>9. /\ s.ec \subseteq b.ec /\ s.pq \subseteq b.pq
      /\ b.next.ec \in 1..MediumMax /\ b.next.pq \in 1..MediumMax
      /\ \A k \in b.ec : Behind(k.id, b.next.ec, round * Stride)
      /\ \A k \in b.pq : Behind(k.id, b.next.pq, round * Stride)
      /\ Range(s.signed) \subseteq Range(b.signed) /\ Range(s.last) \subseteq Range(b.last)
  BY <1>7 DEF Refilled, SlotOK
<1>10. \A x \in Range(b.last) : x \in s.pq \/ (x \in b.pq /\ \A y \in s.pq : x # y)
  <2>1. ASSUME NEW j \in PqSaves(saves, n) PROVE saves[j].key \in b.pq /\ \A y \in s.pq : saves[j].key # y
    <3>1. saves[j].key \in b.pq
      BY <1>4 DEF Result, Kept
    <3>2. \A y \in s.pq : saves[j].key.id # y.id
      BY <1>7 DEF Refilled, SlotOK
    <3> QED BY <3>1, <3>2
  <2> QED BY <1>7, <1>8, <2>1 DEF Refilled
<1>11. \/ job' = Idle
       \/ /\ n = Len(saves)
          /\ job' = [f \in JobFields(job.kind) |-> job'[f]]
          /\ job'.kind = job.kind /\ job'.round = job.round /\ job'.left = Tail(job.left)
          /\ \A x \in DOMAIN job'.keys :
                \/ x # i /\ x \in DOMAIN job.keys /\ job'.keys[x] = job.keys[x]
                \/ /\ x = i
                   /\ job'.keys[x] = IF job.kind = "refresh" THEN Published(s, saves)
                                                             ELSE Activated(s, saves)
  <2>1. CASE job' # Idle
    <3> DEFINE k == IF job.kind = "refresh" THEN Published(s, saves) ELSE Activated(s, saves)
               rest == Tail(job.left)
               pc == IF Len(job.left) = 1 THEN "upload" ELSE "replenish"
               keys == [x \in DOMAIN job.keys \cup {i} |-> IF x = i THEN k ELSE job.keys[x]]
    <3>1. n = Len(saves) /\ job' = [job EXCEPT !.left = rest, !.pc = pc, !.keys = keys]
      BY <1>2, <2>1 DEF Refills
    <3>2. job = [f \in JobFields(job.kind) |-> job[f]] /\ job.kind \in {"refresh", "link", "register"}
      BY <1>1 DEF Running
    <3> HIDE DEF k
    <3>3. \A x \in DOMAIN keys : \/ x # i /\ x \in DOMAIN job.keys /\ keys[x] = job.keys[x]
                                 \/ x = i /\ keys[x] = k
      OBVIOUS
    <3> HIDE DEF rest, pc, keys
    <3>4. /\ job' = [f \in JobFields(job.kind) |-> job'[f]]
          /\ job'.kind = job.kind /\ job'.round = job.round /\ job'.left = rest /\ job'.keys = keys
      BY <3>1, <3>2 DEF JobFields
    <3> QED BY <3>1, <3>3, <3>4 DEF rest, k
  <2> QED BY <2>1
<1>12. StoreOK'
  <2>1. Calls(i)' = round
    <3>1. CASE job' = Idle
      BY <1>3, <3>1 DEF Calls, Idle
    <3>2. CASE job' # Idle
      <4>1. job'.left = Tail(job.left)
        BY <1>11, <3>2
      <4>2. \/ \E x \in Identities : job.left = <<x>>
            \/ job.left = <<"aci", "pni">>
        BY <1>1 DEF Running, RefreshStage, ActivateStage, PreKeysAssumption
      <4>3. \A j \in DOMAIN job'.left : job'.left[j] # i
        <5>1. CASE \E x \in Identities : job.left = <<x>>
          <6>1. job'.left = <<>>
            BY <4>1, <5>1
          <6> QED BY <6>1
        <5>2. CASE job.left = <<"aci", "pni">>
          <6>1. job'.left = <<"pni">> /\ i = "aci"
            BY <1>4, <4>1, <5>2
          <6> QED BY <6>1
        <5> QED BY <4>2, <5>1, <5>2
      <4> QED BY <1>3, <4>3 DEF Calls
    <3> QED BY <3>1, <3>2
  <2>2. ASSUME NEW x \in Identities, x # i PROVE Calls(x)' = Calls(x) \/ Calls(x)' = round
    <3>1. CASE job' = Idle
      BY <1>3, <3>1 DEF Calls, Idle
    <3>2. CASE job' # Idle
      <4>1. job'.left = Tail(job.left)
        BY <1>11, <3>2
      <4>2. \/ \E y \in Identities : job.left = <<y>>
            \/ job.left = <<"aci", "pni">>
        BY <1>1 DEF Running, RefreshStage, ActivateStage, PreKeysAssumption
      <4>3. (\E j \in DOMAIN job'.left : job'.left[j] = x) => (\E j \in DOMAIN job.left : job.left[j] = x)
        <5>1. CASE \E y \in Identities : job.left = <<y>>
          <6>1. job'.left = <<>>
            BY <4>1, <5>1
          <6> QED BY <6>1
        <5>2. CASE job.left = <<"aci", "pni">>
          <6>1. job'.left = <<"pni">> /\ i = "aci"
            BY <1>4, <4>1, <5>2
          <6>2. ASSUME NEW j \in DOMAIN job'.left, job'.left[j] = x PROVE job.left[2] = x /\ 2 \in DOMAIN job.left
            BY <5>2, <6>1, <6>2
          <6> QED BY <6>2
        <5> QED BY <4>2, <5>1, <5>2
      <4> QED BY <1>1, <1>3, <4>3 DEF Calls, Making
    <3> QED BY <3>1, <3>2
  <2>3. ASSUME NEW x \in Identities, x # i, NEW id, NEW next, Behind(id, next, Calls(x) * Stride)
        PROVE  Behind(id, next, Calls(x)' * Stride)
    <3>1. Calls(x) \in Nat /\ Calls(x) <= round
      BY CallsBound
    <3>2. PICK m \in Nat : m = Calls(x)
      BY <3>1
    <3>3. m * Stride \in Nat /\ round * Stride \in Nat /\ m * Stride <= round * Stride
      BY <1>5, <3>1, <3>2, StrideMore
    <3>4. CASE Calls(x)' = round
      BY <2>3, <3>2, <3>3, <3>4, BehindMore
    <3>5. CASE Calls(x)' = Calls(x)
      BY <2>3, <3>5
    <3> QED BY <2>2, <2>3, <3>4, <3>5
  <2>4. Range(b.last) \subseteq b.pq
    BY <1>9, <1>10
  <2>5. ASSUME NEW x \in Identities
        PROVE  /\ store'[x].next.ec \in 1..MediumMax /\ store'[x].next.pq \in 1..MediumMax
               /\ \A k \in store'[x].ec : Behind(k.id, store'[x].next.ec, Calls(x)' * Stride)
               /\ \A k \in store'[x].pq : Behind(k.id, store'[x].next.pq, Calls(x)' * Stride)
               /\ Range(store'[x].last) \subseteq store'[x].pq
    <3>1. CASE x = i
      BY <1>6, <1>9, <2>1, <2>4, <3>1
    <3>2. CASE x # i
      BY <1>6, <2>3, <3>2 DEF KeysInv, StoreOK
    <3> QED BY <3>1, <3>2
  <2> QED BY <2>5 DEF StoreOK, Stride
<1>13. ASSUME NEW x \in Identities, NEW k, Usable(store[x], k) PROVE Usable(store'[x], k)
  <2>1. CASE x = i
    <3>1. Usable(s, k)
      BY <1>13, <2>1
    <3> HIDE DEF s
    <3>2. ASSUME NEW y \in k.pq, y \in s.pq PROVE y \notin Range(b.last)
      <4>1. y \notin Range(s.last)
        BY <3>1 DEF Usable
      <4>2. \A j \in PqSaves(saves, n) : y # saves[j].key
        BY <1>7, <3>2 DEF Refilled, SlotOK
      <4> QED BY <1>7, <4>1, <4>2 DEF Refilled
    <3>3. Usable(b, k)
      BY <1>9, <3>1, <3>2, UsableKept
    <3> QED BY <1>6, <2>1, <3>3
  <2>2. CASE x # i
    BY <1>6, <1>13, <2>2
  <2> QED BY <2>1, <2>2
<1>14. ASSUME n = Len(saves),
              NEW k, k = IF job.kind = "refresh" THEN Published(s, saves) ELSE Activated(s, saves)
       PROVE  Usable(b, k) /\ \A x \in OneTime(k) : x.round = job.round /\ job.kind = "refresh"
  <2>1. use = (job.kind = "refresh" => s.last = <<>>)
    BY <1>1, <1>2 DEF Refills, WantsLastResort, Running
  <2> HIDE DEF s
  <2>2. MadeKeys(saves, use, job.count)
    BY <1>4, <1>5, SavesMade
  <2>3. Fresh(k, s, saves, use, job.count)
    <3>1. CASE job.kind = "refresh"
      <4>1. Shape(saves, s, use, Batch, job.round) /\ use = (s.last = <<>>)
        BY <1>4, <1>5, <2>1, <3>1
      <4>2. ToPublish(s, saves, use, k)
        <5>1. ToPublish(s, saves, use, Published(s, saves))
          BY <1>4, <1>5, <4>1, PublishedKeys
        <5> QED BY <1>14, <3>1, <5>1
      <4>3. ~use => k.last \in Range(s.last)
        <5>1. s.last \in Seq(Key)
          BY <1>4 DEF Store
        <5> QED BY <4>2, <5>1 DEF ToPublish, Range
      <4> QED BY <1>5, <2>2, <3>1, <4>2, <4>3 DEF ToPublish, MadeKeys, Fresh
    <3>2. CASE job.kind # "refresh"
      <4>1. use = TRUE /\ k = Activated(s, saves)
        BY <1>14, <2>1, <3>2
      <4>2. k.ec = {} /\ k.pq = {} /\ k.signed = One(Made(saves, "signed")) /\ k.last = One(Made(saves, "last"))
        BY <4>1 DEF Activated
      <4> QED BY <2>2, <4>1, <4>2 DEF MadeKeys, Fresh
    <3> QED BY <3>1, <3>2
  <2>4. Usable(b, k)
    BY <1>4, <1>5, <1>7, <1>8, <1>14, <2>3, FreshUsable
  <2>5. job.kind # "refresh" => OneTime(k) = {}
    BY <1>14 DEF Activated, OneTime
  <2>6. ASSUME NEW x \in OneTime(k) PROVE x.round = job.round
    <3>1. job.count \in Nat
      BY <1>5 DEF PreKeysAssumption
    <3>2. DOMAIN saves = 1..LastPlace(use, job.count)
      BY <2>2 DEF MadeKeys
    <3>3. PICK j \in 1..(2 * job.count) : x = saves[j].key
      BY <2>3, <2>6, <3>1 DEF Fresh, OneTime
    <3>4. j \in DOMAIN saves
      BY <3>1, <3>2 DEF LastPlace
    <3>5. Place(saves, s, use, job.count, job.round, j)
      BY <1>4, <1>5, <3>4, SavesPlaces
    <3> QED BY <3>3, <3>5 DEF Place
  <2> QED BY <2>4, <2>5, <2>6
<1>15. Making' => /\ n = Len(saves) /\ job'.kind = job.kind /\ job'.round = job.round
                  /\ \A x \in DOMAIN job'.keys :
                        /\ x \in Identities /\ Usable(store'[x], job'.keys[x])
                        /\ \A z \in OneTime(job'.keys[x]) : z.round = job.round /\ job.kind = "refresh"
  <2>1. SUFFICES ASSUME Making', job' # Idle
                 PROVE  /\ n = Len(saves) /\ job'.kind = job.kind /\ job'.round = job.round
                        /\ \A x \in DOMAIN job'.keys :
                             /\ x \in Identities /\ Usable(store'[x], job'.keys[x])
                             /\ \A z \in OneTime(job'.keys[x]) : z.round = job.round /\ job.kind = "refresh"
    BY DEF Making, Idle
  <2>2. DOMAIN job.keys \subseteq Identities
    BY <1>1 DEF Running, RefreshStage, ActivateStage, PreKeysAssumption
  <2>3. n = Len(saves) /\ job'.kind = job.kind /\ job'.round = job.round
    BY <1>11, <2>1
  <2>4. ASSUME NEW x \in DOMAIN job'.keys
        PROVE  /\ x \in Identities /\ Usable(store'[x], job'.keys[x])
               /\ \A z \in OneTime(job'.keys[x]) : z.round = job.round /\ job.kind = "refresh"
    <3>1. CASE x # i /\ x \in DOMAIN job.keys /\ job'.keys[x] = job.keys[x]
      BY <1>1, <1>13, <2>2, <3>1 DEF KeysInv, PlacesOK, RoundsOK
    <3>2. CASE /\ x = i
               /\ job'.keys[x] = IF job.kind = "refresh" THEN Published(s, saves) ELSE Activated(s, saves)
      BY <1>4, <1>6, <1>14, <2>3, <3>2
    <3> QED BY <1>11, <2>1, <3>1, <3>2
  <2> QED BY <2>3, <2>4
<1>16. PlacesOK'
  <2>1. \A d \in Devices, x \in Identities : bundle[d][x] # None => Usable(store'[x], bundle[d][x])
    BY <1>13 DEF KeysInv, PlacesOK
  <2>2. \A h \in handed : /\ h.identity \in Identities /\ h.keys \in KeySet
                          /\ Usable(store'[h.identity], h.keys)
    BY <1>13 DEF KeysInv, PlacesOK
  <2>3. ASSUME NEW r \in wire, NEW x \in DOMAIN r.keys PROVE Usable(store'[x], r.keys[x])
    <3>1. x \in Identities
      BY DEF CallInv, WireOK
    <3> QED BY <1>13, <3>1 DEF KeysInv, PlacesOK
  <2> QED BY <1>3, <1>15, <2>1, <2>2, <2>3 DEF PlacesOK
<1>17. RoundsOK'
  <2>1. \A m : Arrived(m) => Arrived(m)'
    BY <1>1, <1>3, <1>15 DEF Arrived
  <2> QED BY <1>3, <1>15, <2>1 DEF KeysInv, RoundsOK, OneTime
<1>18. HandedOnce'
  BY <1>3 DEF KeysInv, HandedOnce, Apart
<1> QED BY <1>12, <1>16, <1>17, <1>18 DEF KeysInv

\* At first nothing is served.
LEMMA KeysInit ==
    ASSUME PreKeysAssumption, NoneAssumption, Init
    PROVE  KeysInv
<1>1. /\ wire = {} /\ handed = {} /\ job = Idle /\ round = 0
  BY DEF Init, KeysIdle
<1>2. Identities = {"aci", "pni"} /\ 0 \in Devices /\ StartIds \subseteq 1..MediumMax /\ 1 \in 1..MediumMax
  BY DEF PreKeysAssumption, Devices
<1>3. ~Making
  BY <1>1 DEF Making, Idle
<1>4. ASSUME NEW n \in 1..MediumMax
      PROVE  /\ EmptyStore(n).next.ec = n /\ EmptyStore(n).next.pq = n
             /\ EmptyStore(n).ec = {} /\ EmptyStore(n).pq = {}
             /\ EmptyStore(n).signed = <<>> /\ EmptyStore(n).last = <<>>
             /\ LegacyStore(n).next.ec = n /\ LegacyStore(n).next.pq = n
             /\ LegacyStore(n).ec = {} /\ LegacyStore(n).pq = {}
             /\ LegacyStore(n).signed = <<LegacyKey>> /\ LegacyStore(n).last = <<>>
  <2>1. PICK e : e = [ec |-> {}, pq |-> {}, signed |-> <<>>, last |-> <<>>,
                      next |-> [ec |-> n, pq |-> n, signed |-> 1]]
    OBVIOUS
  <2>2. LegacyStore(n) = [e EXCEPT !.signed = <<LegacyKey>>, !.next = [@ EXCEPT !.signed = 2]]
    BY <2>1 DEF LegacyStore, EmptyStore
  <2>3. [e.next EXCEPT !.signed = 2] = [ec |-> n, pq |-> n, signed |-> 2]
    BY <2>1
  <2> HIDE DEF LegacyKey
  <2> QED BY <2>1, <2>2, <2>3 DEF EmptyStore
<1>5. PICK n \in 1..MediumMax :
        \/ /\ store = [i \in Identities |-> EmptyStore(n)]
           /\ bundle = [d \in Devices |-> NoBundles]
        \/ /\ store = [i \in Identities |-> LegacyStore(n)]
           /\ bundle = [d \in Devices |->
                          IF d = 0 THEN [i \in Identities |-> LegacyBundle] ELSE NoBundles]
  BY <1>2 DEF Init
<1>6. \A i \in Identities : /\ store[i].next.ec = n /\ store[i].next.pq = n
                            /\ store[i].ec = {} /\ store[i].pq = {} /\ store[i].last = <<>>
  <2>1. CASE store = [i \in Identities |-> EmptyStore(n)]
    BY <1>4, <2>1
  <2>2. CASE store = [i \in Identities |-> LegacyStore(n)]
    BY <1>4, <2>2
  <2> QED BY <1>5, <2>1, <2>2
<1>7. Range(<<>>) = {} /\ LegacyKey \in Range(<<LegacyKey>>)
  <2>1. DOMAIN <<LegacyKey>> = 1..1 /\ <<LegacyKey>>[1] = LegacyKey /\ 1 \in 1..1
    OBVIOUS
  <2> QED BY <2>1 DEF Range
<1>8. StoreOK
  BY <1>6, <1>7 DEF StoreOK
<1>9. ASSUME NEW d \in Devices, NEW i \in Identities, bundle[d][i] # None
      PROVE  bundle[d][i] = LegacyBundle /\ store[i] = LegacyStore(n)
  <2>1. NoBundles[i] = None
    BY DEF NoBundles
  <2>2. CASE bundle = [e \in Devices |-> NoBundles]
    BY <1>9, <2>1, <2>2
  <2>3. CASE /\ store = [x \in Identities |-> LegacyStore(n)]
             /\ bundle = [e \in Devices |->
                            IF e = 0 THEN [x \in Identities |-> LegacyBundle] ELSE NoBundles]
    <3>1. d = 0
      BY <1>9, <2>1, <2>3
    <3>2. bundle[d] = [x \in Identities |-> LegacyBundle]
      BY <2>3, <3>1
    <3> QED BY <2>3, <3>2
  <2> QED BY <1>5, <2>2, <2>3
<1>10. Usable(LegacyStore(n), LegacyBundle)
  <2>1. /\ LegacyBundle.ec = {} /\ LegacyBundle.pq = {} /\ LegacyBundle.signed = LegacyKey
        /\ LegacyBundle.last = None
    BY DEF LegacyBundle
  <2> QED BY <1>4, <1>7, <2>1 DEF Usable, Holds
<1>11. OneTime(LegacyBundle) = {}
  BY DEF OneTime, LegacyBundle
<1>12. PlacesOK
  BY <1>1, <1>3, <1>9, <1>10 DEF PlacesOK
<1>13. RoundsOK
  BY <1>1, <1>3, <1>9, <1>11 DEF RoundsOK
<1>14. HandedOnce
  BY <1>1 DEF HandedOnce
<1> QED BY <1>8, <1>12, <1>13, <1>14 DEF KeysInv

\* Calls are counted up.
LEMMA RoundGrows ==
    ASSUME CallInv, [Next]_vars
    PROVE  round \in Nat /\ round' \in Nat /\ round <= round'
<1>1. round \in Nat
  BY DEF CallInv, Types
<1>2. round' = round \/ round' = round + 1
  <2>1. CASE Progress
    BY <2>1, Zenon DEF Progress, Keys, Link, StartRefresh, Status, Check, Upload, ServeUpload, GiveUp,
       ReplenishKeys, Replenish, UploadLink, GiveUpLink, ServeLink, UploadRegister, ServeRegister
  <2>2. CASE Surroundings
    BY <2>2, Zenon DEF Surroundings, Keys, Link, Primary, Session, StartLink, ProvisionStep,
       ProvisionFails, StartRegister, LoseRequest, Fetch, Receive
  <2>3. CASE Transfer \/ UNCHANGED vars
    BY <2>3 DEF Transfer, vars, keyVars
  <2> QED BY <2>1, <2>2, <2>3 DEF Next
<1> QED BY <1>1, <1>2

\* Within a lap every step keeps what peers may use.
LEMMA KeysNext ==
    ASSUME PreKeysAssumption, NoneAssumption, CallInv, CallInv', KeysInv, NotLapped, [Next]_vars
    PROVE  KeysInv'
<1>1. "aci" \in Identities /\ "pni" \in Identities
  BY DEF PreKeysAssumption
<1>2. CASE \/ \E i \in {"aci", "pni"} : Keys(StartRefresh(i, TRUE))
           \/ Keys(Status) \/ Keys(Check) \/ Keys(GiveUp /\ job.kind # "link")
           \/ Link(GiveUpLink)
  BY <1>1, <1>2, CallSteps DEF Keys, Link, GiveUpLink
<1>3. CASE Keys(Upload) \/ Keys(UploadRegister)
  BY <1>3, KeysSent DEF Keys, Upload, UploadRegister
<1>4. CASE Link(UploadLink)
  <2>1. job.pc = "upload" /\ UNCHANGED <<store, bundle, handed, me, round>>
    BY <1>4 DEF Link, UploadLink
  <2>2. CASE Send(Request(job.message.code))
    BY <2>1, <2>2, KeysSent
  <2>3. CASE job' = Idle /\ UNCHANGED wire
    BY <2>1, <2>3, CallMoved DEF CallMoves
  <2> QED BY <1>4, <2>2, <2>3 DEF Link, UploadLink, EndLink
<1>5. CASE \E r \in wire : Keys(ServeUpload(r))
  BY <1>5, KeysUploaded DEF Keys
<1>6. CASE \E r \in wire : Link(ServeLink(r)) \/ ServeRegister(r)
  BY <1>6, LinkServed DEF Link
<1>7. CASE Link(ReplenishKeys)
  BY <1>7, KeysReplenished DEF Link, ReplenishKeys
<1>8. CASE \/ \E a \in Links : Link(StartLink(a))
           \/ Link(ProvisionStep) \/ Link(ProvisionFails) \/ Keys(StartRegister)
           \/ \E r \in wire : Keys(LoseRequest(r))
  BY <1>8, CallSteps DEF Link, Keys
<1>9. CASE \E d \in Devices, i \in Identities : Keys(Fetch(d, i))
  BY <1>9, KeysFetched DEF Keys
<1>10. CASE \E h \in handed : Keys(Receive(h))
  BY <1>10, KeysUsed DEF Keys
<1>11. CASE UNCHANGED <<store, bundle, wire, handed, job, me, round>>
  BY <1>11, CallSteps
<1>12. (\/ \E a \in Links : Primary(Scan(a) /\ UNCHANGED failures)
        \/ Primary(GetCode)
        \/ Primary(SendProvision /\ UNCHANGED failures))
       => UNCHANGED <<store, bundle, wire, handed, job, me, round>>
  BY DEF Primary
<1>13. ((\E op \in {"create", "patch", "request", "submit"} : Session(SessionCall(op)))
           \/ Session(SessionExpires) \/ Transfer \/ UNCHANGED vars)
       => UNCHANGED <<store, bundle, wire, handed, job, me, round>>
  BY DEF Session, Transfer, vars, keyVars
<1>14. CASE Progress
  BY <1>2, <1>3, <1>4, <1>5, <1>6, <1>7, <1>14, Zenon DEF Progress
<1>15. CASE Surroundings
  BY <1>8, <1>9, <1>10, <1>11, <1>12, <1>13, <1>15, Zenon DEF Surroundings
<1> QED BY <1>11, <1>13, <1>14, <1>15 DEF Next

-----------------------------------------------------------------------------
(* Theorems *)

\* What the calls rely on holds in every state of a device's life.
THEOREM CallsHold == Spec => []CallInv
<1>1. Init => CallInv
  BY PreKeysAssumption, NoneAssumption, CallInit
<1>2. CallInv /\ [Next]_vars => CallInv'
  BY PreKeysAssumption, NoneAssumption, CallNext
<1> QED BY <1>1, <1>2, PTL DEF Spec

\* link_device says that the device exists only when it does and after it showed
\* the URL, an error other than a missing answer leaves no device at the server,
\* and an answer about the verification session says where it stands.
THEOREM RegistrationHolds == Spec => []RegistrationIsTrue
<1>1. Init => SessionViewIsFresh
  BY DEF Init, SessionViewIsFresh
<1>2. SessionViewIsFresh /\ [Next]_vars => SessionViewIsFresh'
  BY SessionNext
<1>3. CallInv /\ SessionViewIsFresh => RegistrationIsTrue
  <2> SUFFICES ASSUME CallInv PROVE LinkIsTrue /\ FailureLeavesNoDevice
    BY DEF RegistrationIsTrue
  <2>2. ASSUME NEW a \in Links, job.pc = "answer", job.kind = "link", job.dev = a
        PROVE  ended[a] = "no"
    BY <2>2, JobRuns DEF CallInv, Running
  <2>3. FailureLeavesNoDevice
    BY <2>2 DEF CallInv, ServedOK, FailureLeavesNoDevice
  <2> QED BY <2>3 DEF CallInv
<1> QED BY <1>1, <1>2, <1>3, CallsHold, PTL DEF Spec

\* update_pre_key_bundle makes no new batch for an identity whose last call
\* succeeded and whose bundle nobody touched since, whatever was lost, late or cut
\* short in the calls before.
THEOREM RefreshesAreNeeded == Spec => []NoNeedlessRefresh
<1>1. CallInv => NoNeedlessRefresh
  <2> SUFFICES ASSUME CallInv, job.pc = "replenish", job.kind = "refresh"
               PROVE  refreshed[Head(job.left)] # "uploaded"
    BY DEF NoNeedlessRefresh
  <2>1. Running
    BY JobRuns DEF CallInv
  <2>2. PICK i \in Identities : job.left = <<i>>
    BY <2>1 DEF Running, RefreshStage
  <2>3. Head(job.left) = i
    BY <2>2
  <2> QED BY <2>2, <2>3 DEF CallInv, RefreshOK
<1> QED BY <1>1, CallsHold, PTL

\* get_transfer_archive reports a timeout only at its deadline, and a request it
\* waits for outlives the deadline by no more than half a second and the leeway.
THEOREM PollsArePunctual == Spec => []PollIsPunctual
<1>1. Init => ArchiveInv
  BY TransferAssumption, ArchiveInit DEF Init
<1>2. ArchiveInv /\ [Next]_vars => ArchiveInv'
  BY TransferAssumption, ArchiveNext
<1>3. ArchiveInv => PollIsPunctual
  <2>1. SUFFICES ASSUME ArchiveInv, arch.pc = "wait"
                 PROVE  2 * arch.now <= 2 * (Total + Leeway * Second) + Second
    BY DEF PollIsPunctual, ArchiveInv, PollOK
  <2> DEFINE a == arch.asked
             u == arch.secs * Second
             l == Leeway * Second
  <2>2. /\ a \in Nat /\ arch.secs \in Nat /\ arch.now \in Nat /\ arch.now <= HttpTimeout
        /\ 2 * (a + u) <= 2 * Total + Second
    BY <2>1 DEF ArchiveInv, PollOK
  <2>3. /\ u \in Nat /\ l \in Nat /\ Total \in Nat /\ Second \in Nat
        /\ HttpTimeout = a + (u + l)
    BY <2>2, TransferAssumption DEF HttpTimeout, TransferAssumption
  <2> HIDE DEF a, u, l
  <2>4. 2 * arch.now <= 2 * (Total + l) + Second
    BY <2>2, <2>3
  <2> QED BY <2>4 DEF l
<1> QED BY <1>1, <1>2, <1>3, PTL DEF Spec

\* However often download_transfer_archive breaks off and whatever the CDN makes of
\* a range, what the caller appended is a prefix of the archive, and all of it when
\* the download says so.
THEOREM ArchiveHolds == Spec => []ArchiveIsWhole
<1>1. Init => ArchiveInv
  BY TransferAssumption, ArchiveInit DEF Init
<1>2. ArchiveInv /\ [Next]_vars => ArchiveInv'
  BY TransferAssumption, ArchiveNext
<1>3. ArchiveInv => ArchiveIsWhole
  <2>1. SUFFICES ASSUME ArchiveInv PROVE arch.file = [k \in 1..Len(arch.file) |-> k]
    BY DEF ArchiveIsWhole, ArchiveInv, FileOK
  <2>2. PICK f \in Seq(Nat) : f = arch.file /\ \A k \in 1..Len(f) : f[k] = k
    BY <2>1 DEF ArchiveInv, FileOK
  <2>3. DOMAIN f = 1..Len(f) /\ f = [k \in DOMAIN f |-> f[k]]
    BY <2>2
  <2>4. f = [k \in 1..Len(f) |-> k]
    BY <2>2, <2>3
  <2> QED BY <2>2, <2>4
<1> QED BY <1>1, <1>2, <1>3, PTL DEF Spec
\* Whoever opens a session finds the device able to read it: every key the server
\* serves, a peer has fetched, or an upload carries, also one whose caller gave up,
\* is in the store, however often calls were cut short or lost.  It holds until the
\* calls to replenish_pre_keys have used every id once (NotLapped); from then on a
\* new key may take the place of one that a peer still holds.
THEOREM ServedKeysStay == Spec => [](NotLapped => ServedKeysHeld)
<1> DEFINE I == NotLapped => KeysInv
<1>1. Init => I
  BY PreKeysAssumption, NoneAssumption, KeysInit
<1>2. CallInv /\ CallInv' /\ I /\ [Next]_vars => I'
  <2> SUFFICES ASSUME CallInv, CallInv', I, [Next]_vars, NotLapped' PROVE KeysInv'
    OBVIOUS
  <2>1. round \in Nat /\ round' \in Nat /\ round <= round'
    BY RoundGrows
  <2>2. round * Stride \in Nat /\ round' * Stride \in Nat /\ round * Stride <= round' * Stride
    BY <2>1, PreKeysAssumption, StrideMore
  <2>3. round' * Stride < MediumMax - 1
    BY DEF NotLapped, Stride
  <2>4. NotLapped
    <3>1. PICK x \in Nat, y \in Nat : x = round * Stride /\ y = round' * Stride
      BY <2>2
    <3>2. MediumMax \in Nat /\ x <= y /\ y < MediumMax - 1
      BY <2>2, <2>3, <3>1, PreKeysAssumption DEF PreKeysAssumption
    <3>3. x < MediumMax - 1
      BY <3>2
    <3> QED BY <3>1, <3>3 DEF NotLapped
  <2> QED BY <2>4, PreKeysAssumption, NoneAssumption, KeysNext
<1>3. I => (NotLapped => ServedKeysHeld)
  BY DEF KeysInv, PlacesOK, Usable, ServedKeysHeld
<1> HIDE DEF I
<1> QED BY <1>1, <1>2, <1>3, CallsHold, PTL DEF Spec
=============================================================================
