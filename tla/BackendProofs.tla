------------------------------ MODULE BackendProofs ------------------------------
(***************************************************************************)
(* Proofs about the five modules of BackendServices: an upload that is     *)
(* decoded while its blocks arrive (StreamingUpload), a recording that is  *)
(* transcribed while it goes on (LiveCapture), the engine in use           *)
(* (SpeechRuntime), the ids that voices keep (SpeakerMapping) and the      *)
(* transcript that passes, readers and corrections share                   *)
(* (TranscriptPublishing).  For each an inductive invariant is shown to    *)
(* hold initially and to be kept by every action; what BackendServices     *)
(* promises follows for the whole specification, since a scenario only     *)
(* chooses which module moves.                                             *)
(***************************************************************************)
EXTENDS BackendServices, Sequences, TLAPS, FiniteSetTheorems, SequenceTheorems, WellFoundedInduction

-----------------------------------------------------------------------------
(* StreamingUpload                                                         *)

UlReading == {"reading", "sending"}
UlType ==
    /\ received \subseteq Blocks /\ written \subseteq Blocks /\ mutex \in Blocks \cup {None}
    /\ complete \in BOOLEAN /\ closed \in BOOLEAN /\ silent \in BOOLEAN /\ fd \in BOOLEAN
    /\ reader \in [Readers -> [pc : {"none", "waiting", "reading", "sending"}, block : Blocks \cup {None}]]
    /\ decoder \in {"none", "probing", "converting", "trailing", "done", "failed"}
    /\ process \in {"none", "running", "ok", "bad"} /\ asked \in 0..MaxAsks
    /\ server \in {"none", "open", "closed"}
    /\ closer \in [Up!Callers -> {"out", "lock", "readers", "done"}]
    /\ runner \in {"working", "closing", "cancelling", "disposed"}

\* What counts is in the file; an upload that is complete has all of it; a reader that goes on
\* has found its block, and a decoder that has returned has found the upload complete.
UlBlocks ==
    /\ received = written
    /\ complete => received = Blocks
    /\ \A r \in Readers : reader[r].pc \in UlReading => reader[r].block \in received
    /\ decoder = "done" => complete

\* Who is where in the end: run's close() follows run, and takes the lock, the readers and the
\* server from those who might still start something.
UlEnding ==
    /\ runner = "working" => closer["run"] = "out"
    /\ runner \in {"cancelling", "disposed"} => closer["run"] = "done"
    /\ \A c \in Up!Callers : closer[c] \in {"readers", "done"} => closed
    /\ \A c \in Up!Callers : closer[c] = "done" => \A r \in Readers : reader[r].pc = "none"
    /\ closed => mutex = None
    /\ closer["run"] \in {"readers", "done"} => server # "open"
    /\ process # "none" => decoder \in {"probing", "converting"}
    /\ runner = "disposed" => decoder \in {"none", "done", "failed"}

UlInv == UlType /\ UlBlocks /\ UlEnding

\* An upload begins with nothing received and nothing decoded.
LEMMA UlInit == Up!Init => UlInv
  <1> SUFFICES ASSUME Up!Init PROVE UlInv
    OBVIOUS
  <1> USE DEF Up!Init
  <1>1. UlType
    <2>1. 0 \in 0..MaxAsks
      BY UploadAssumption
    <2>2. reader \in [Readers -> [pc : {"none", "waiting", "reading", "sending"}, block : Blocks \cup {None}]]
      BY DEF Up!NoReader
    <2> QED
      BY <2>1, <2>2 DEF UlType
  <1>2. UlBlocks /\ UlEnding
    BY DEF UlBlocks, UlEnding, UlReading, Up!NoReader, Up!Callers
  <1> QED
    BY <1>1, <1>2 DEF UlInv

\* Every step keeps the invariant.
LEMMA UlStep == ASSUME UlInv, [Up!Next]_Up!vars PROVE UlInv'
  <1> USE DEF UlInv
  <1>1. ASSUME NEW b \in Blocks, Up!Put(b) PROVE UlInv'
    <2>1. UlType'
      BY <1>1, UploadAssumption DEF Up!Put, Up!Broken, Up!Counted, Up!Same, Up!SameBlocks, UlType, Up!Callers, UlEnding
    <2>2. UlBlocks'
      BY <1>1 DEF Up!Put, Up!Broken, Up!Counted, Up!Same, Up!SameBlocks, UlType, UlBlocks, UlReading
    <2>3. UlEnding'
      BY <1>1 DEF Up!Put, Up!Broken, Up!Counted, Up!Same, Up!SameBlocks, UlType, UlEnding, Up!Callers
    <2> QED
      BY <2>1, <2>2, <2>3
  <1>2. ASSUME NEW r \in Readers, NEW b \in Blocks, Up!Connect(r, b) PROVE UlInv'
    <2>1. UlType'
      BY <1>2, UploadAssumption DEF Up!Connect, Up!Want, Up!Broken, Up!Same, Up!SameBlocks, UlType, Up!Callers, UlEnding
    <2>2. UlBlocks'
      BY <1>2 DEF Up!Connect, Up!Want, Up!Broken, Up!Same, Up!SameBlocks, UlType, UlBlocks, UlReading
    <2>3. UlEnding'
      BY <1>2 DEF Up!Connect, Up!Want, Up!Broken, Up!Same, Up!SameBlocks, UlType, UlEnding, Up!Callers
    <2> QED
      BY <2>1, <2>2, <2>3
  <1>3. CASE Up!Stored
    <2>1. UlType'
      BY <1>3, UploadAssumption DEF Up!Stored, Up!Same, Up!SameBlocks, UlType, Up!Callers, UlEnding
    <2>2. UlBlocks'
      BY <1>3 DEF Up!Stored, Up!Same, Up!SameBlocks, UlType, UlBlocks, UlReading
    <2>3. UlEnding'
      BY <1>3 DEF Up!Stored, Up!Same, Up!SameBlocks, UlType, UlEnding, Up!Callers
    <2> QED
      BY <2>1, <2>2, <2>3
  <1>4. CASE Up!WriteFails
    <2>1. UlType'
      BY <1>4, UploadAssumption DEF Up!WriteFails, Up!Same, Up!SameBlocks, UlType, Up!Callers, UlEnding
    <2>2. UlBlocks'
      BY <1>4 DEF Up!WriteFails, Up!Same, Up!SameBlocks, UlType, UlBlocks, UlReading
    <2>3. UlEnding'
      BY <1>4 DEF Up!WriteFails, Up!Same, Up!SameBlocks, UlType, UlEnding, Up!Callers
    <2> QED
      BY <2>1, <2>2, <2>3
  <1>5. CASE Up!Finish
    <2>1. UlType'
      BY <1>5, UploadAssumption DEF Up!Finish, Up!Same, Up!SameBlocks, UlType, Up!Callers, UlEnding
    <2>2. UlBlocks'
      BY <1>5 DEF Up!Finish, Up!Same, Up!SameBlocks, UlType, UlBlocks, UlReading
    <2>3. UlEnding'
      BY <1>5 DEF Up!Finish, Up!Same, Up!SameBlocks, UlType, UlEnding, Up!Callers
    <2> QED
      BY <2>1, <2>2, <2>3
  <1>6. CASE Up!FallSilent
    <2>1. UlType'
      BY <1>6, UploadAssumption DEF Up!FallSilent, Up!Same, Up!SameBlocks, UlType, Up!Callers, UlEnding
    <2>2. UlBlocks'
      BY <1>6 DEF Up!FallSilent, Up!Same, Up!SameBlocks, UlType, UlBlocks, UlReading
    <2>3. UlEnding'
      BY <1>6 DEF Up!FallSilent, Up!Same, Up!SameBlocks, UlType, UlEnding, Up!Callers
    <2> QED
      BY <2>1, <2>2, <2>3
  <1>7. ASSUME NEW r \in Readers, Up!WaitForBlock(r) PROVE UlInv'
    <2>1. UlType'
      BY <1>7, UploadAssumption DEF Up!WaitForBlock, Up!End, Up!NoReader, Up!Same, Up!SameBlocks, UlType, Up!Callers, UlEnding
    <2>2. UlBlocks'
      BY <1>7 DEF Up!WaitForBlock, Up!End, Up!NoReader, Up!Same, Up!SameBlocks, UlType, UlBlocks, UlReading
    <2>3. UlEnding'
      BY <1>7 DEF Up!WaitForBlock, Up!End, Up!NoReader, Up!Same, Up!SameBlocks, UlType, UlEnding, Up!Callers
    <2> QED
      BY <2>1, <2>2, <2>3
  <1>8. ASSUME NEW r \in Readers, Up!ReadAt(r) PROVE UlInv'
    <2>1. UlType'
      BY <1>8, UploadAssumption DEF Up!ReadAt, Up!End, Up!NoReader, Up!Same, Up!SameBlocks, UlType, Up!Callers, UlEnding
    <2>2. UlBlocks'
      BY <1>8 DEF Up!ReadAt, Up!End, Up!NoReader, Up!Same, Up!SameBlocks, UlType, UlBlocks, UlReading
    <2>3. UlEnding'
      BY <1>8 DEF Up!ReadAt, Up!End, Up!NoReader, Up!Same, Up!SameBlocks, UlType, UlEnding, Up!Callers
    <2> QED
      BY <2>1, <2>2, <2>3
  <1>9. ASSUME NEW r \in Readers, Up!Sent(r) PROVE UlInv'
    <2>1. UlType'
      BY <1>9, UploadAssumption DEF Up!Sent, Up!End, Up!NoReader, Up!Want, Up!Broken, Up!Same, Up!SameBlocks, UlType, Up!Callers, UlEnding
    <2>2. UlBlocks'
      BY <1>9 DEF Up!Sent, Up!End, Up!NoReader, Up!Want, Up!Broken, Up!Same, Up!SameBlocks, UlType, UlBlocks, UlReading
    <2>3. UlEnding'
      BY <1>9 DEF Up!Sent, Up!End, Up!NoReader, Up!Want, Up!Broken, Up!Same, Up!SameBlocks, UlType, UlEnding, Up!Callers
    <2> QED
      BY <2>1, <2>2, <2>3
  <1>10. CASE Up!Decode
    <2>1. UlType'
      BY <1>10, UploadAssumption DEF Up!Decode, Up!Same, Up!SameBlocks, UlType, Up!Callers, UlEnding
    <2>2. UlBlocks'
      BY <1>10 DEF Up!Decode, Up!Same, Up!SameBlocks, UlType, UlBlocks, UlReading
    <2>3. UlEnding'
      BY <1>10 DEF Up!Decode, Up!Same, Up!SameBlocks, UlType, UlEnding, Up!Callers
    <2> QED
      BY <2>1, <2>2, <2>3
  <1>11. CASE Up!Spawn
    <2>1. UlType'
      BY <1>11, UploadAssumption DEF Up!Spawn, Up!Same, Up!SameBlocks, UlType, Up!Callers, UlEnding
    <2>2. UlBlocks'
      BY <1>11 DEF Up!Spawn, Up!Same, Up!SameBlocks, UlType, UlBlocks, UlReading
    <2>3. UlEnding'
      BY <1>11 DEF Up!Spawn, Up!Same, Up!SameBlocks, UlType, UlEnding, Up!Callers
    <2> QED
      BY <2>1, <2>2, <2>3
  <1>12. CASE Up!Reaped
    <2>1. UlType'
      BY <1>12, UploadAssumption DEF Up!Reaped, Up!Same, Up!SameBlocks, UlType, Up!Callers, UlEnding
    <2>2. UlBlocks'
      BY <1>12 DEF Up!Reaped, Up!Same, Up!SameBlocks, UlType, UlBlocks, UlReading
    <2>3. UlEnding'
      BY <1>12 DEF Up!Reaped, Up!Same, Up!SameBlocks, UlType, UlEnding, Up!Callers
    <2> QED
      BY <2>1, <2>2, <2>3
  <1>13. CASE Up!Trail
    <2>1. UlType'
      BY <1>13, UploadAssumption DEF Up!Trail, Up!Broken, Up!Returns, Up!Same, Up!SameBlocks, UlType, Up!Callers, UlEnding
    <2>2. UlBlocks'
      BY <1>13 DEF Up!Trail, Up!Broken, Up!Returns, Up!Same, Up!SameBlocks, UlType, UlBlocks, UlReading
    <2>3. UlEnding'
      BY <1>13 DEF Up!Trail, Up!Broken, Up!Returns, Up!Same, Up!SameBlocks, UlType, UlEnding, Up!Callers
    <2> QED
      BY <2>1, <2>2, <2>3
  <1>14. ASSUME NEW code \in {"ok", "bad"}, Up!Exit(code) PROVE UlInv'
    <2>1. UlType'
      BY <1>14, UploadAssumption DEF Up!Exit, Up!Same, Up!SameBlocks, UlType, Up!Callers, UlEnding
    <2>2. UlBlocks'
      BY <1>14 DEF Up!Exit, Up!Same, Up!SameBlocks, UlType, UlBlocks, UlReading
    <2>3. UlEnding'
      BY <1>14 DEF Up!Exit, Up!Same, Up!SameBlocks, UlType, UlEnding, Up!Callers
    <2> QED
      BY <2>1, <2>2, <2>3
  <1>15. CASE Up!RunEnds
    <2>1. UlType'
      BY <1>15, UploadAssumption DEF Up!RunEnds, Up!Advance, Up!Same, Up!SameBlocks, UlType, Up!Callers, UlEnding
    <2>2. UlBlocks'
      BY <1>15 DEF Up!RunEnds, Up!Advance, Up!Same, Up!SameBlocks, UlType, UlBlocks, UlReading
    <2>3. UlEnding'
      BY <1>15 DEF Up!RunEnds, Up!Advance, Up!Same, Up!SameBlocks, UlType, UlEnding, Up!Callers
    <2> QED
      BY <2>1, <2>2, <2>3
  <1>16. CASE Up!Delete
    <2>1. UlType'
      BY <1>16, UploadAssumption DEF Up!Delete, Up!Advance, Up!Same, Up!SameBlocks, UlType, Up!Callers, UlEnding
    <2>2. UlBlocks'
      BY <1>16 DEF Up!Delete, Up!Advance, Up!Same, Up!SameBlocks, UlType, UlBlocks, UlReading
    <2>3. UlEnding'
      BY <1>16 DEF Up!Delete, Up!Advance, Up!Same, Up!SameBlocks, UlType, UlEnding, Up!Callers
    <2> QED
      BY <2>1, <2>2, <2>3
  <1>17. ASSUME NEW c \in Up!Callers, Up!Close(c) PROVE UlInv'
    <2>1. UlType'
      BY <1>17, UploadAssumption DEF Up!Close, Up!Advance, Up!Same, Up!SameBlocks, UlType, Up!Callers, UlEnding
    <2>2. UlBlocks'
      BY <1>17 DEF Up!Close, Up!Advance, Up!Same, Up!SameBlocks, UlType, UlBlocks, UlReading
    <2>3. UlEnding'
      BY <1>17 DEF Up!Close, Up!Advance, Up!Same, Up!SameBlocks, UlType, UlEnding, Up!Callers
    <2> QED
      BY <2>1, <2>2, <2>3
  <1>18. ASSUME NEW c \in Up!Callers, Up!Closed(c) PROVE UlInv'
    <2>1. UlType'
      BY <1>18, UploadAssumption DEF Up!Closed, Up!Advance, Up!Same, Up!SameBlocks, UlType, Up!Callers, UlEnding
    <2>2. UlBlocks'
      BY <1>18 DEF Up!Closed, Up!Advance, Up!Same, Up!SameBlocks, UlType, UlBlocks, UlReading
    <2>3. UlEnding'
      BY <1>18 DEF Up!Closed, Up!Advance, Up!Same, Up!SameBlocks, UlType, UlEnding, Up!Callers
    <2> QED
      BY <2>1, <2>2, <2>3
  <1>19. CASE Up!CancelDecoder
    <2>1. UlType'
      BY <1>19, UploadAssumption DEF Up!CancelDecoder, Up!Same, Up!SameBlocks, UlType, Up!Callers, UlEnding
    <2>2. UlBlocks'
      BY <1>19 DEF Up!CancelDecoder, Up!Same, Up!SameBlocks, UlType, UlBlocks, UlReading
    <2>3. UlEnding'
      BY <1>19 DEF Up!CancelDecoder, Up!Same, Up!SameBlocks, UlType, UlEnding, Up!Callers
    <2> QED
      BY <2>1, <2>2, <2>3
  <1>20. CASE Up!Dispose
    <2>1. UlType'
      BY <1>20, UploadAssumption DEF Up!Dispose, Up!DecoderEnded, Up!Same, Up!SameBlocks, UlType, Up!Callers, UlEnding
    <2>2. UlBlocks'
      BY <1>20 DEF Up!Dispose, Up!DecoderEnded, Up!Same, Up!SameBlocks, UlType, UlBlocks, UlReading
    <2>3. UlEnding'
      BY <1>20 DEF Up!Dispose, Up!DecoderEnded, Up!Same, Up!SameBlocks, UlType, UlEnding, Up!Callers
    <2> QED
      BY <2>1, <2>2, <2>3
  <1>21. CASE UNCHANGED Up!vars
    BY <1>21 DEF Up!vars, UlType, UlBlocks, UlEnding, Up!Callers
  <1> QED
    BY <1>1, <1>2, <1>3, <1>4, <1>5, <1>6, <1>7, <1>8, <1>9, <1>10, <1>11, <1>12, <1>13, <1>14, <1>15, <1>16, <1>17, <1>18, <1>19, <1>20, <1>21
    DEF Up!Next, Up!ReaderStep

\* The invariant implies what the runs check of an upload.
LEMMA UlHolds == UlInv => Up!TypeOK /\ Up!NoGapIsRead /\ Up!DecodedWhole /\ Up!QuietAfterDispose
  <1> SUFFICES ASSUME UlInv PROVE Up!TypeOK /\ Up!NoGapIsRead /\ Up!DecodedWhole /\ Up!QuietAfterDispose
    OBVIOUS
  <1> USE DEF UlInv
  <1>1. Up!TypeOK
    BY DEF UlType, Up!TypeOK
  <1>2. Up!NoGapIsRead /\ Up!DecodedWhole
    BY DEF Up!NoGapIsRead, Up!DecodedWhole, UlBlocks, UlReading
  <1>3. Up!QuietAfterDispose
    BY DEF Up!QuietAfterDispose, UlType, UlEnding, Up!Callers
  <1> QED
    BY <1>1, <1>2, <1>3

-----------------------------------------------------------------------------
(* Lemmas about numbers and sequences                                      *)

\* A set of numbers has a least element.
LEMMA LeastNumber ==
  ASSUME NEW T, T \subseteq Nat, T # {} PROVE \E x \in T : \A y \in T : x <= y
  <1>1. \E x \in T : \A y \in T : ~(<<y, x>> \in OpToRel(<, Nat))
    BY NatLessThanWellFounded, WFMin
  <1>2. \A x, y \in T : y < x => <<y, x>> \in OpToRel(<, Nat)
    BY DEF OpToRel
  <1>3. PICK x \in T : \A y \in T : ~(y < x)
    BY <1>1, <1>2, Zenon
  <1> QED
    BY <1>3

\* The smallest number of a set of numbers is in it and under all of it.
LEMMA LcMin ==
  ASSUME NEW T, T \subseteq Nat, T # {}
  PROVE  Lc!Min(T) \in T /\ \A y \in T : Lc!Min(T) <= y
  <1>1. \E x \in T : \A y \in T : x <= y
    BY LeastNumber
  <1> QED
    BY <1>1 DEF Lc!Min

\* The largest number of a bounded set is in it and over all of it.
LEMMA LcMax ==
  ASSUME NEW n \in Nat, NEW T, T \subseteq 0..n, T # {}
  PROVE  Lc!Max(T) \in T /\ \A y \in T : Lc!Max(T) >= y
  <1> DEFINE above == {b \in Nat : \A y \in T : y <= b}
  <1>1. above \subseteq Nat /\ n \in above
    OBVIOUS
  <1> HIDE DEF above
  <1>2. PICK b \in above : \A c \in above : b <= c
    BY <1>1, LeastNumber
  <1> USE DEF above
  <1>3. \E x \in T : \A y \in T : x >= y
    <2>1. CASE b \in T
      BY <1>2, <2>1
    <2>2. CASE b \notin T
      <3>1. \A y \in T : y < b
        BY <1>2, <2>2
      <3>2. PICK y \in T : y < b
        BY <3>1
      <3>3. b - 1 \in Nat /\ b - 1 < b
        BY <1>2, <3>2
      <3>4. \A z \in T : z <= b - 1
        BY <1>2, <3>1
      <3>5. b - 1 \in above
        BY <3>3, <3>4
      <3> QED
        BY <1>2, <3>3, <3>5
    <2> QED
      BY <2>1, <2>2
  <1> QED
    BY <1>3 DEF Lc!Max

LcCut(a, h, f, kept, a1, h1) ==
    /\ a1 = a \o SubSeq(h \o f, 1, Len(h \o f) - kept)
    /\ h1 = SubSeq(h \o f, Len(h \o f) - kept + 1, Len(h \o f))
LcLaid(a, h, f, kept, a1, h1) ==
    /\ Len(a1) = Len(a) + Len(h) + Len(f) - kept /\ Len(h1) = kept
    /\ \A u \in 1..Len(a1) :
           a1[u] = IF u <= Len(a) THEN a[u]
                   ELSE IF u <= Len(a) + Len(h) THEN h[u - Len(a)]
                   ELSE f[u - Len(a) - Len(h)]
    /\ \A u \in 1..Len(h1) : h1[u] = f[Len(f) - kept + u]

\* What the buffer and the resampler hold after a frame is what they held before and the frame.
LEMMA LcJoined ==
  ASSUME NEW S, NEW a \in Seq(S), NEW h \in Seq(S), NEW f \in Seq(S), Len(f) >= 1, NEW kept \in 0..1,
         NEW a1, NEW h1, LcCut(a, h, f, kept, a1, h1)
  PROVE  a1 \in Seq(S) /\ h1 \in Seq(S) /\ LcLaid(a, h, f, kept, a1, h1)
  <1> USE DEF LcCut
  <1> DEFINE both == h \o f
  <1>2. /\ both \in Seq(S) /\ Len(both) = Len(h) + Len(f)
        /\ \A u \in 1..Len(both) : both[u] = IF u <= Len(h) THEN h[u] ELSE f[u - Len(h)]
    BY ConcatProperties
  <1>3. Len(h) \in Nat /\ Len(f) \in Nat /\ Len(a) \in Nat
    OBVIOUS
  <1> HIDE DEF both
  <1> DEFINE s == SubSeq(both, 1, Len(both) - kept)
  <1>4. s \in Seq(S) /\ Len(s) = Len(both) - kept /\ \A u \in 1..Len(s) : s[u] = both[u]
    <2> DEFINE n == Len(both) - kept
    <2>1. n \in Nat /\ \A u \in 1..n : u \in 1..Len(both)
      BY <1>2, <1>3
    <2>2. \A u \in 1..n : both[u] \in S
      BY <1>2, <2>1
    <2> HIDE DEF n
    <2>3. /\ SubSeq(both, 1, n) \in Seq(S) /\ Len(SubSeq(both, 1, n)) = n
          /\ \A u \in 1..n : SubSeq(both, 1, n)[u] = both[u]
      <3>1. 1 \in Int /\ n \in Int /\ (IF 1 <= n THEN n - 1 + 1 ELSE 0) = n /\ n - 1 + 1 = n
        BY <2>1
      <3>2. \A u \in 1..n : 1 + u - 1 = u
        BY <2>1
      <3> QED
        BY <2>2, <3>1, <3>2, SubSeqProperties
    <2> QED
      BY <2>3 DEF n
  <1>5. h1 \in Seq(S) /\ Len(h1) = kept /\ \A u \in 1..Len(h1) : h1[u] = both[Len(both) - kept + u]
    <2> DEFINE m == Len(both) - kept + 1
    <2> DEFINE n == Len(both)
    <2>1. h1 = SubSeq(both, m, n)
      BY DEF both
    <2>2. /\ m \in 1..n + 1 /\ n \in Nat /\ kept \in 0..1 /\ m = n - kept + 1
          /\ \A i \in m..n : both[i] \in S
      <3>1. n \in Nat /\ n >= 1
        BY <1>2, <1>3
      <3>2. m \in 1..n + 1 /\ m = n - kept + 1
        BY <3>1
      <3>3. \A i \in m..n : i \in 1..Len(both)
        BY <3>1, <3>2
      <3> QED
        BY <1>2, <3>1, <3>2, <3>3
    <2> HIDE DEF m, n
    <2>3. /\ h1 \in Seq(S) /\ Len(h1) = IF m <= n THEN n - m + 1 ELSE 0
          /\ \A i \in 1..n - m + 1 : h1[i] = both[m + i - 1]
      <3>1. m \in Int /\ n \in Int /\ \A i \in m..n : both[i] \in S
        BY <2>2
      <3>2. /\ SubSeq(both, m, n) \in Seq(S)
            /\ Len(SubSeq(both, m, n)) = IF m <= n THEN n - m + 1 ELSE 0
            /\ \A i \in 1..n - m + 1 : SubSeq(both, m, n)[i] = both[m + i - 1]
        BY <3>1, SubSeqProperties
      <3> QED
        BY <2>1, <3>2
    <2>4. Len(h1) = kept
      BY <2>2, <2>3
    <2>5. n - m + 1 = kept /\ \A i \in 1..kept : m + i - 1 = n - kept + i
      BY <2>2
    <2> QED
      BY <2>3, <2>4, <2>5 DEF n
  <1> HIDE DEF s
  <1>6. a1 = a \o s
    BY DEF s, both
  <1>7. /\ a1 \in Seq(S) /\ Len(a1) = Len(a) + Len(s)
        /\ \A u \in 1..Len(a1) : a1[u] = IF u <= Len(a) THEN a[u] ELSE s[u - Len(a)]
    <2>1. s \in Seq(S) /\ Len(s) \in Nat
      BY <1>4
    <2>2. /\ a \o s \in Seq(S) /\ Len(a \o s) = Len(a) + Len(s)
          /\ \A u \in 1..Len(a) + Len(s) : (a \o s)[u] = IF u <= Len(a) THEN a[u] ELSE s[u - Len(a)]
      BY <2>1, ConcatProperties
    <2> QED
      BY <1>6, <2>2
  <1>8. \A u \in 1..Len(h1) : h1[u] = f[Len(f) - kept + u]
    BY <1>2, <1>3, <1>5
  <1>9. Len(a1) = Len(a) + Len(h) + Len(f) - kept
    BY <1>2, <1>3, <1>4, <1>7
  <1>10. ASSUME NEW u \in 1..Len(a1)
         PROVE  a1[u] = IF u <= Len(a) THEN a[u]
                        ELSE IF u <= Len(a) + Len(h) THEN h[u - Len(a)]
                        ELSE f[u - Len(a) - Len(h)]
    <2>1. CASE u <= Len(a)
      BY <1>7, <2>1
    <2>2. CASE ~(u <= Len(a))
      <3> DEFINE v == u - Len(a)
      <3>1. a1[u] = s[v]
        BY <1>7, <2>2
      <3>2. v \in 1..Len(s) /\ v \in 1..Len(both)
        <4>1. Len(s) = Len(h) + Len(f) - kept /\ Len(a1) = Len(a) + Len(h) + Len(f) - kept
          BY <1>2, <1>4, <1>9
        <4>2. u \in Nat /\ u <= Len(a) + Len(h) + Len(f) - kept
          BY <1>3, <4>1
        <4>3. Len(h) + Len(f) - kept <= Len(both) /\ u > Len(a)
          <5>1. Len(both) = Len(h) + Len(f)
            BY <1>2
          <5>2. Len(h) + Len(f) - kept <= Len(both)
            BY <1>3, <5>1
          <5>3. u > Len(a)
            BY <1>3, <2>2, <4>2
          <5> QED
            BY <5>2, <5>3
        <4>4. v \in Nat /\ v >= 1 /\ v <= Len(h) + Len(f) - kept
          <5>1. kept \in 0..1 /\ u \in Nat /\ u > Len(a) /\ u <= Len(a) + Len(h) + Len(f) - kept
            BY <4>2, <4>3
          <5> HIDE DEF s
          <5> QED
            BY <1>3, <5>1
        <4>5. Len(s) \in Nat /\ Len(both) \in Nat
          <5>1. Len(both) = Len(h) + Len(f) /\ kept \in 0..1
            BY <1>2
          <5> HIDE DEF s, v
          <5> QED
            BY <1>3, <4>1, <5>1
        <4>6. v <= Len(s) /\ v <= Len(both)
          <5> HIDE DEF s, v
          <5> QED
            BY <1>3, <4>1, <4>3, <4>4, <4>5
        <4> HIDE DEF s, v
        <4> QED
          BY <4>4, <4>5, <4>6
      <3>3. s[v] = both[v]
        BY <1>4, <3>2
      <3>4. both[v] = IF v <= Len(h) THEN h[v] ELSE f[v - Len(h)]
        BY <1>2, <3>2
      <3>5. v <= Len(h) <=> u <= Len(a) + Len(h)
        BY <1>3
      <3> QED
        BY <2>2, <3>1, <3>3, <3>4, <3>5
    <2> QED
      BY <2>1, <2>2
  <1> QED
    BY <1>4, <1>5, <1>7, <1>8, <1>9, <1>10 DEF LcLaid

-----------------------------------------------------------------------------
(* LiveCapture                                                             *)

LcHears == {"speech", "silence", "gap"}
LcType ==
    /\ frames \subseteq [at : Lc!Units, sound : Lc!Sounds] /\ nextSample \in 0..Recording
    /\ audio \in Seq(LcHears) /\ held \in Seq(LcHears) /\ Len(held) <= 1
    /\ Lc!Size + Len(held) = nextSample
    /\ appending \in {"idle", "feeding", "fed"}
    /\ heard \in 0..Lc!Size /\ lastSpeech \in 0..heard
    /\ processed \in 0..Lc!Size /\ attempt \in 0..Lc!Size /\ stable \in 0..Lc!Size
    /\ words \in [Lc!Units -> 0..Inferences]
    /\ asr \in [pc : {"idle", "running"}, begin : Nat, end : 0..Lc!Size, final : BOOLEAN]
    /\ diar \in 0..Lc!Size /\ diarUntil \in 0..Lc!Size
    /\ asrFailed \in BOOLEAN /\ diarFailed \in BOOLEAN /\ interrupted \in BOOLEAN /\ alive \in BOOLEAN
    /\ finish \in {"none", "closing", "flushing", "awaiting", "draining", "transcribing", "ready",
                   "diarizing", "publishing", "saving", "leaving", "ended"}
    /\ state \in {"RECORDING", "FINALIZING", "COMPLETED", "PARTIAL", "INTERRUPTED"}
    /\ stopped \in 0..Recording

\* What the buffer and the resampler hold was sent, or nothing was sent for its unit.
LcTold(sent, u, x) ==
    \/ [at |-> u, sound |-> x] \in sent
    \/ x = "gap" /\ \A sound \in Lc!Sounds : [at |-> u, sound |-> sound] \notin sent
LcPositions ==
    /\ \A f \in frames : f.at <= nextSample
    /\ \A u \in 1..Lc!Size : LcTold(frames, u, audio[u])
    /\ \A u \in 1..Len(held) : LcTold(frames, Lc!Size + u, held[u])

\* The last speech is speech; once append has returned the detector has heard everything.
LcHearing ==
    /\ lastSpeech > 0 => audio[lastSpeech] = "speech"
    /\ appending = "fed" => heard = Lc!Size
    /\ appending = "idle" /\ finish \notin {"leaving", "ended"} =>
         /\ heard = Lc!Size
         /\ \A u \in lastSpeech + 1..Lc!Size : audio[u] # "speech"

LcEarly == {"none", "closing", "flushing", "awaiting", "draining", "transcribing"}
LcLast == {"ready", "diarizing", "publishing", "saving"}
LcWords(n) == \A u \in 1..n : audio[u] = "speech" => words[u] # 0

\* What was processed has its words, as has what is stable; no speech is left between it and
\* the window that is transcribed; words that are not stable yet wait for the rest of the speech.
LcTranscribed ==
    /\ finish \in LcEarly =>
         /\ stable <= processed /\ processed <= attempt
         /\ stable < processed => lastSpeech >= processed
         /\ LcWords(processed)
    /\ finish \in LcLast \ {"saving"} => LcWords(stable)
    /\ asr.pc = "running" /\ finish \in LcEarly =>
         /\ asr.begin < asr.end /\ processed < asr.end
         /\ \A u \in 1..asr.begin : u >= processed => audio[u] # "speech"

\* What is over at each point of finish().
LcFinish ==
    /\ asr.pc = "running" => finish \notin (LcLast \cup {"draining", "ended"})
    /\ diar > 0 => finish \notin {"draining", "transcribing", "ready", "publishing", "saving", "ended"}
    /\ finish = "transcribing" => asr.pc = "running"
    /\ finish = "diarizing" => diar = Lc!Size
    /\ finish \in {"closing", "awaiting", "draining", "transcribing"} \cup LcLast => appending = "idle"
    /\ finish \in {"flushing", "awaiting", "draining", "transcribing"} \cup LcLast => Len(held) = 0
    /\ finish # "none" /\ ~interrupted => stopped = nextSample
    /\ finish \in LcLast /\ alive /\ ~asrFailed => LcWords(Lc!Size)
    /\ finish \in {"publishing", "saving"} /\ alive /\ ~diarFailed => diarUntil = Lc!Size
    /\ state = "COMPLETED" => /\ finish \in {"leaving", "ended"} /\ asr.pc = "idle" /\ diar = 0
                              /\ appending = "idle"

LcInv == LcType /\ LcPositions /\ LcHearing /\ LcTranscribed /\ LcFinish /\ Lc!CompletedIsWhole

\* The buffer and the resampler hold a number of units.
LEMMA LcCounts == ASSUME LcType PROVE Lc!Size \in Nat /\ Len(held) \in Nat
  BY LenProperties DEF LcType, Lc!Size

\* Audio that comes in keeps the invariant: it goes where the recording goes on.
LEMMA LcFeed == ASSUME LcInv, Lc!Feed PROVE LcInv'
  <1> USE DEF LcInv
  <1>1. LcType'
    BY DEF Lc!Feed, Lc!input, Lc!progress, Lc!speakers, Lc!ending, Lc!Size, LcType
  <1>2. LcPositions'
    BY DEF Lc!Feed, Lc!input, Lc!progress, Lc!speakers, Lc!ending, Lc!Size, LcPositions, LcTold
  <1>3. LcHearing'
    BY DEF Lc!Feed, Lc!input, Lc!progress, Lc!speakers, Lc!ending, Lc!Size, LcHearing, LcType, LcFinish
  <1>4. LcTranscribed'
    BY DEF Lc!Feed, Lc!input, Lc!progress, Lc!speakers, Lc!ending, Lc!Size, LcTranscribed, LcWords, LcType, LcFinish, LcEarly, LcLast
  <1>5. LcFinish'
    BY DEF Lc!Feed, Lc!input, Lc!progress, Lc!speakers, Lc!ending, Lc!Size, LcFinish, LcWords, LcType, LcLast, LcTranscribed, LcEarly
  <1>6. Lc!CompletedIsWhole'
    BY DEF Lc!Feed, Lc!input, Lc!progress, Lc!speakers, Lc!ending, Lc!Size, Lc!CompletedIsWhole, LcFinish, LcLast, LcType, LcWords
  <1> QED
    BY <1>1, <1>2, <1>3, <1>4, <1>5, <1>6

\* A stop keeps the invariant, whatever last audio comes with it.
LEMMA LcStop == ASSUME LcInv, NEW last \in Lc!Units, Lc!Stop(last) PROVE LcInv'
  <1> USE DEF LcInv
  <1>1. LcType'
    BY DEF Lc!Stop, Lc!Accepted, Lc!Close, Lc!input, Lc!progress, Lc!speakers, Lc!ending, Lc!Size, LcType
  <1>2. LcPositions'
    BY DEF Lc!Stop, Lc!Accepted, Lc!Close, Lc!input, Lc!progress, Lc!speakers, Lc!ending, Lc!Size, LcPositions, LcTold
  <1>3. LcHearing'
    BY DEF Lc!Stop, Lc!Accepted, Lc!Close, Lc!input, Lc!progress, Lc!speakers, Lc!ending, Lc!Size, LcHearing, LcType, LcFinish
  <1>4. LcTranscribed'
    BY DEF Lc!Stop, Lc!Accepted, Lc!Close, Lc!input, Lc!progress, Lc!speakers, Lc!ending, Lc!Size, LcTranscribed, LcWords, LcType, LcFinish, LcEarly, LcLast
  <1>5. LcFinish'
    BY DEF Lc!Stop, Lc!Accepted, Lc!Close, Lc!input, Lc!progress, Lc!speakers, Lc!ending, Lc!Size, LcFinish, LcWords, LcType, LcLast, LcTranscribed, LcEarly
  <1>6. Lc!CompletedIsWhole'
    BY DEF Lc!Stop, Lc!Accepted, Lc!Close, Lc!input, Lc!progress, Lc!speakers, Lc!ending, Lc!Size, Lc!CompletedIsWhole, LcFinish, LcLast, LcType, LcWords
  <1> QED
    BY <1>1, <1>2, <1>3, <1>4, <1>5, <1>6

\* An interruption keeps the invariant.
LEMMA LcInterrupt == ASSUME LcInv, Lc!Interrupt PROVE LcInv'
  <1> USE DEF LcInv
  <1>1. LcType'
    BY DEF Lc!Interrupt, Lc!Close, Lc!input, Lc!progress, Lc!speakers, Lc!ending, Lc!Size, LcType
  <1>2. LcPositions'
    BY DEF Lc!Interrupt, Lc!Close, Lc!input, Lc!progress, Lc!speakers, Lc!ending, Lc!Size, LcPositions, LcTold
  <1>3. LcHearing'
    BY DEF Lc!Interrupt, Lc!Close, Lc!input, Lc!progress, Lc!speakers, Lc!ending, Lc!Size, LcHearing, LcType, LcFinish
  <1>4. LcTranscribed'
    BY DEF Lc!Interrupt, Lc!Close, Lc!input, Lc!progress, Lc!speakers, Lc!ending, Lc!Size, LcTranscribed, LcWords, LcType, LcFinish, LcEarly, LcLast
  <1>5. LcFinish'
    BY DEF Lc!Interrupt, Lc!Close, Lc!input, Lc!progress, Lc!speakers, Lc!ending, Lc!Size, LcFinish, LcWords, LcType, LcLast, LcTranscribed, LcEarly
  <1>6. Lc!CompletedIsWhole'
    BY DEF Lc!Interrupt, Lc!Close, Lc!input, Lc!progress, Lc!speakers, Lc!ending, Lc!Size, Lc!CompletedIsWhole, LcFinish, LcLast, LcType, LcWords
  <1> QED
    BY <1>1, <1>2, <1>3, <1>4, <1>5, <1>6

\* Deleting the session keeps the invariant.
LEMMA LcDelete == ASSUME LcInv, Lc!Delete PROVE LcInv'
  <1> USE DEF LcInv
  <1>1. LcType'
    <2>1. UNCHANGED <<Lc!Size, frames, nextSample, held, audio, appending, heard, lastSpeech, stopped,
                      processed, attempt, stable, words, asr, asrFailed>>
      BY DEF Lc!Delete, Lc!input, Lc!progress, Lc!speakers, Lc!ending, Lc!Size
    <2>2. alive' \in BOOLEAN /\ UNCHANGED <<diar, diarUntil, diarFailed, finish, interrupted, state>>
      BY DEF Lc!Delete, Lc!input, Lc!progress, Lc!speakers, Lc!ending, LcType
    <2>3. finish' \in {"publishing", finish}
      BY DEF Lc!Delete, Lc!input, Lc!progress, Lc!speakers, Lc!ending
    <2>4. LcType
      OBVIOUS
    <2> HIDE DEF LcInv
    <2> QED
      BY <2>1, <2>2, <2>3, <2>4 DEF LcType
  <1>2. LcPositions'
    BY DEF Lc!Delete, Lc!input, Lc!progress, Lc!speakers, Lc!ending, Lc!Size, LcPositions, LcTold
  <1>3. LcHearing'
    BY DEF Lc!Delete, Lc!input, Lc!progress, Lc!speakers, Lc!ending, Lc!Size, LcHearing, LcType, LcFinish
  <1>4. LcTranscribed'
    BY DEF Lc!Delete, Lc!input, Lc!progress, Lc!speakers, Lc!ending, Lc!Size, LcTranscribed, LcWords, LcType, LcFinish, LcEarly, LcLast
  <1>5. LcFinish'
    BY DEF Lc!Delete, Lc!input, Lc!progress, Lc!speakers, Lc!ending, Lc!Size, LcFinish, LcWords, LcType, LcLast, LcTranscribed, LcEarly
  <1>6. Lc!CompletedIsWhole'
    BY DEF Lc!Delete, Lc!input, Lc!progress, Lc!speakers, Lc!ending, Lc!Size, Lc!CompletedIsWhole, LcFinish, LcLast, LcType, LcWords
  <1> QED
    BY <1>1, <1>2, <1>3, <1>4, <1>5, <1>6

\* Starting a diarization keeps the invariant.
LEMMA LcDiarize == ASSUME LcInv, Lc!Diarize PROVE LcInv'
  <1> USE DEF LcInv
  <1>1. LcType'
    BY DEF Lc!Diarize, Lc!input, Lc!progress, Lc!speakers, Lc!ending, Lc!Size, LcType
  <1>2. LcPositions'
    BY DEF Lc!Diarize, Lc!input, Lc!progress, Lc!speakers, Lc!ending, Lc!Size, LcPositions, LcTold
  <1>3. LcHearing'
    BY DEF Lc!Diarize, Lc!input, Lc!progress, Lc!speakers, Lc!ending, Lc!Size, LcHearing, LcType, LcFinish
  <1>4. LcTranscribed'
    BY DEF Lc!Diarize, Lc!input, Lc!progress, Lc!speakers, Lc!ending, Lc!Size, LcTranscribed, LcWords, LcType, LcFinish, LcEarly, LcLast
  <1>5. LcFinish'
    BY DEF Lc!Diarize, Lc!input, Lc!progress, Lc!speakers, Lc!ending, Lc!Size, LcFinish, LcWords, LcType, LcLast, LcTranscribed, LcEarly
  <1>6. Lc!CompletedIsWhole'
    BY DEF Lc!Diarize, Lc!input, Lc!progress, Lc!speakers, Lc!ending, Lc!Size, Lc!CompletedIsWhole, LcFinish, LcLast, LcType, LcWords
  <1> QED
    BY <1>1, <1>2, <1>3, <1>4, <1>5, <1>6

\* The result of a diarization keeps the invariant.
LEMMA LcDiarized == ASSUME LcInv, Lc!Diarized PROVE LcInv'
  <1> USE DEF LcInv
  <1>1. LcType'
    <2>1. UNCHANGED <<Lc!Size, frames, nextSample, held, audio, appending, heard, lastSpeech, stopped,
                      processed, attempt, stable, words, asr, asrFailed>>
      BY DEF Lc!Diarized, Lc!DiarizeResult, Lc!input, Lc!progress, Lc!speakers, Lc!ending, Lc!Size
    <2>2. alive' = alive /\ diar' = 0 /\ diarUntil' \in 0..Lc!Size /\ diarFailed' \in BOOLEAN /\ UNCHANGED <<interrupted, state>>
      BY DEF Lc!Diarized, Lc!DiarizeResult, Lc!input, Lc!progress, Lc!speakers, Lc!ending, LcType
    <2>3. finish' \in {"publishing", finish}
      BY DEF Lc!Diarized, Lc!DiarizeResult, Lc!input, Lc!progress, Lc!speakers, Lc!ending
    <2>4. LcType
      OBVIOUS
    <2>5. finish' \in {"none", "closing", "flushing", "awaiting", "draining", "transcribing", "ready",
                       "diarizing", "publishing", "saving", "leaving", "ended"}
      BY <2>3, <2>4 DEF LcType
    <2>6. alive' \in BOOLEAN /\ asrFailed' \in BOOLEAN /\ interrupted' \in BOOLEAN
      BY <2>1, <2>2, <2>4 DEF LcType
    <2>7. state' \in {"RECORDING", "FINALIZING", "COMPLETED", "PARTIAL", "INTERRUPTED"}
      BY <2>2, <2>4 DEF LcType
    <2>8. asr' \in [pc : {"idle", "running"}, begin : Nat, end : 0..Lc!Size', final : BOOLEAN]
      BY <2>1, <2>4 DEF LcType
    <2>9. 0 \in 0..Lc!Size
      BY LcCounts
    <2> HIDE DEF LcInv
    <2> QED
      BY <2>1, <2>2, <2>4, <2>5, <2>6, <2>7, <2>8, <2>9 DEF LcType
  <1>2. LcPositions'
    BY DEF Lc!Diarized, Lc!DiarizeResult, Lc!input, Lc!progress, Lc!speakers, Lc!ending, Lc!Size, LcPositions, LcTold
  <1>3. LcHearing'
    BY DEF Lc!Diarized, Lc!DiarizeResult, Lc!input, Lc!progress, Lc!speakers, Lc!ending, Lc!Size, LcHearing, LcType, LcFinish
  <1>4. LcTranscribed'
    BY DEF Lc!Diarized, Lc!DiarizeResult, Lc!input, Lc!progress, Lc!speakers, Lc!ending, Lc!Size, LcTranscribed, LcWords, LcType, LcFinish, LcEarly, LcLast
  <1>5. LcFinish'
    BY DEF Lc!Diarized, Lc!DiarizeResult, Lc!input, Lc!progress, Lc!speakers, Lc!ending, Lc!Size, LcFinish, LcWords, LcType, LcLast, LcTranscribed, LcEarly
  <1>6. Lc!CompletedIsWhole'
    BY DEF Lc!Diarized, Lc!DiarizeResult, Lc!input, Lc!progress, Lc!speakers, Lc!ending, Lc!Size, Lc!CompletedIsWhole, LcFinish, LcLast, LcType, LcWords
  <1> QED
    BY <1>1, <1>2, <1>3, <1>4, <1>5, <1>6

\* The flush at the end keeps the invariant: all audio has then been heard.
LEMMA LcFlushedHeard == ASSUME LcInv, Lc!FlushedHeard PROVE LcInv'
  <1> USE DEF LcInv
  <1>1. LcType'
    BY DEF Lc!FlushedHeard, Lc!Goto, Lc!input, Lc!progress, Lc!speakers, Lc!ending, Lc!Size, LcType
  <1>2. LcPositions'
    BY DEF Lc!FlushedHeard, Lc!Goto, Lc!input, Lc!progress, Lc!speakers, Lc!ending, Lc!Size, LcPositions, LcTold
  <1>3. LcHearing'
    BY DEF Lc!FlushedHeard, Lc!Goto, Lc!input, Lc!progress, Lc!speakers, Lc!ending, Lc!Size, LcHearing, LcType, LcFinish
  <1>4. LcTranscribed'
    BY DEF Lc!FlushedHeard, Lc!Goto, Lc!input, Lc!progress, Lc!speakers, Lc!ending, Lc!Size, LcTranscribed, LcWords, LcType, LcFinish, LcEarly, LcLast
  <1>5. LcFinish'
    BY DEF Lc!FlushedHeard, Lc!Goto, Lc!input, Lc!progress, Lc!speakers, Lc!ending, Lc!Size, LcFinish, LcWords, LcType, LcLast, LcTranscribed, LcEarly
  <1>6. Lc!CompletedIsWhole'
    BY DEF Lc!FlushedHeard, Lc!Goto, Lc!input, Lc!progress, Lc!speakers, Lc!ending, Lc!Size, Lc!CompletedIsWhole, LcFinish, LcLast, LcType, LcWords
  <1> QED
    BY <1>1, <1>2, <1>3, <1>4, <1>5, <1>6

\* Waiting for the engines keeps the invariant.
LEMMA LcTasksEnded == ASSUME LcInv, Lc!TasksEnded PROVE LcInv'
  <1> USE DEF LcInv
  <1>1. LcType'
    BY DEF Lc!TasksEnded, Lc!Goto, Lc!input, Lc!progress, Lc!speakers, Lc!ending, Lc!Size, LcType
  <1>2. LcPositions'
    BY DEF Lc!TasksEnded, Lc!Goto, Lc!input, Lc!progress, Lc!speakers, Lc!ending, Lc!Size, LcPositions, LcTold
  <1>3. LcHearing'
    BY DEF Lc!TasksEnded, Lc!Goto, Lc!input, Lc!progress, Lc!speakers, Lc!ending, Lc!Size, LcHearing, LcType, LcFinish
  <1>4. LcTranscribed'
    BY DEF Lc!TasksEnded, Lc!Goto, Lc!input, Lc!progress, Lc!speakers, Lc!ending, Lc!Size, LcTranscribed, LcWords, LcType, LcFinish, LcEarly, LcLast
  <1>5. LcFinish'
    BY DEF Lc!TasksEnded, Lc!Goto, Lc!input, Lc!progress, Lc!speakers, Lc!ending, Lc!Size, LcFinish, LcWords, LcType, LcLast, LcTranscribed, LcEarly
  <1>6. Lc!CompletedIsWhole'
    BY DEF Lc!TasksEnded, Lc!Goto, Lc!input, Lc!progress, Lc!speakers, Lc!ending, Lc!Size, Lc!CompletedIsWhole, LcFinish, LcLast, LcType, LcWords
  <1> QED
    BY <1>1, <1>2, <1>3, <1>4, <1>5, <1>6

\* The end of the drain keeps the invariant.
LEMMA LcDrainEnds == ASSUME LcInv, Lc!DrainEnds PROVE LcInv'
  <1> USE DEF LcInv
  <1>1. LcType'
    BY DEF Lc!DrainEnds, Lc!Goto, Lc!input, Lc!progress, Lc!speakers, Lc!ending, Lc!Size, LcType
  <1>2. LcPositions'
    BY DEF Lc!DrainEnds, Lc!Goto, Lc!input, Lc!progress, Lc!speakers, Lc!ending, Lc!Size, LcPositions, LcTold
  <1>3. LcHearing'
    BY DEF Lc!DrainEnds, Lc!Goto, Lc!input, Lc!progress, Lc!speakers, Lc!ending, Lc!Size, LcHearing, LcType, LcFinish
  <1>4. LcTranscribed'
    BY DEF Lc!DrainEnds, Lc!Goto, Lc!input, Lc!progress, Lc!speakers, Lc!ending, Lc!Size, LcTranscribed, LcWords, LcType, LcFinish, LcEarly, LcLast
  <1>5. LcFinish'
    BY DEF Lc!DrainEnds, Lc!Goto, Lc!input, Lc!progress, Lc!speakers, Lc!ending, Lc!Size, LcFinish, LcWords, LcType, LcLast, LcTranscribed, LcEarly
  <1>6. Lc!CompletedIsWhole'
    BY DEF Lc!DrainEnds, Lc!Goto, Lc!input, Lc!progress, Lc!speakers, Lc!ending, Lc!Size, Lc!CompletedIsWhole, LcFinish, LcLast, LcType, LcWords
  <1> QED
    BY <1>1, <1>2, <1>3, <1>4, <1>5, <1>6

\* Starting the last diarization keeps the invariant.
LEMMA LcLastDiarize == ASSUME LcInv, Lc!LastDiarize PROVE LcInv'
  <1> USE DEF LcInv
  <1>1. LcType'
    <2>1. UNCHANGED <<Lc!Size, frames, nextSample, held, audio, appending, heard, lastSpeech, stopped,
                      processed, attempt, stable, words, asr, asrFailed, diarUntil, diarFailed,
                      interrupted, state, alive>>
      BY DEF Lc!LastDiarize, Lc!Goto, Lc!input, Lc!progress, Lc!ending, Lc!Size
    <2>2. diar' \in {diar, Lc!Size} /\ finish' \in {"diarizing", "publishing"}
      BY DEF Lc!LastDiarize, Lc!Goto
    <2>3. diar' \in 0..Lc!Size
      <3>1. Lc!Size \in Nat
        BY LcCounts
      <3>2. diar \in 0..Lc!Size
        BY DEF LcType
      <3> QED
        BY <2>2, <3>1, <3>2
    <2>4. LcType
      OBVIOUS
    <2> HIDE DEF LcInv
    <2> QED
      BY <2>1, <2>2, <2>3, <2>4 DEF LcType
  <1>2. LcPositions'
    BY DEF Lc!LastDiarize, Lc!Goto, Lc!input, Lc!progress, Lc!speakers, Lc!ending, Lc!Size, LcPositions, LcTold
  <1>3. LcHearing'
    BY DEF Lc!LastDiarize, Lc!Goto, Lc!input, Lc!progress, Lc!speakers, Lc!ending, Lc!Size, LcHearing, LcType, LcFinish
  <1>4. LcTranscribed'
    BY DEF Lc!LastDiarize, Lc!Goto, Lc!input, Lc!progress, Lc!speakers, Lc!ending, Lc!Size, LcTranscribed, LcWords, LcType, LcFinish, LcEarly, LcLast
  <1>5. LcFinish'
    BY DEF Lc!LastDiarize, Lc!Goto, Lc!input, Lc!progress, Lc!speakers, Lc!ending, Lc!Size, LcFinish, LcWords, LcType, LcLast, LcTranscribed, LcEarly
  <1>6. Lc!CompletedIsWhole'
    BY DEF Lc!LastDiarize, Lc!Goto, Lc!input, Lc!progress, Lc!speakers, Lc!ending, Lc!Size, Lc!CompletedIsWhole, LcFinish, LcLast, LcType, LcWords
  <1> QED
    BY <1>1, <1>2, <1>3, <1>4, <1>5, <1>6

\* Its result keeps the invariant.
LEMMA LcLastDiarized == ASSUME LcInv, Lc!LastDiarized PROVE LcInv'
  <1> USE DEF LcInv
  <1>1. LcType'
    <2>1. UNCHANGED <<Lc!Size, frames, nextSample, held, audio, appending, heard, lastSpeech, stopped,
                      processed, attempt, stable, words, asr, asrFailed>>
      BY DEF Lc!LastDiarized, Lc!Goto, Lc!DiarizeResult, Lc!input, Lc!progress, Lc!speakers, Lc!ending, Lc!Size
    <2>2. alive' = alive /\ diar' = 0 /\ diarUntil' \in 0..Lc!Size /\ diarFailed' \in BOOLEAN /\ UNCHANGED <<interrupted, state>>
      BY DEF Lc!LastDiarized, Lc!Goto, Lc!DiarizeResult, Lc!input, Lc!progress, Lc!speakers, Lc!ending, LcType
    <2>3. finish' \in {"publishing", finish}
      BY DEF Lc!LastDiarized, Lc!Goto, Lc!DiarizeResult, Lc!input, Lc!progress, Lc!speakers, Lc!ending
    <2>4. LcType
      OBVIOUS
    <2>5. finish' \in {"none", "closing", "flushing", "awaiting", "draining", "transcribing", "ready",
                       "diarizing", "publishing", "saving", "leaving", "ended"}
      BY <2>3, <2>4 DEF LcType
    <2>6. alive' \in BOOLEAN /\ asrFailed' \in BOOLEAN /\ interrupted' \in BOOLEAN
      BY <2>1, <2>2, <2>4 DEF LcType
    <2>7. state' \in {"RECORDING", "FINALIZING", "COMPLETED", "PARTIAL", "INTERRUPTED"}
      BY <2>2, <2>4 DEF LcType
    <2>8. asr' \in [pc : {"idle", "running"}, begin : Nat, end : 0..Lc!Size', final : BOOLEAN]
      BY <2>1, <2>4 DEF LcType
    <2>9. 0 \in 0..Lc!Size
      BY LcCounts
    <2> HIDE DEF LcInv
    <2> QED
      BY <2>1, <2>2, <2>4, <2>5, <2>6, <2>7, <2>8, <2>9 DEF LcType
  <1>2. LcPositions'
    BY DEF Lc!LastDiarized, Lc!Goto, Lc!DiarizeResult, Lc!input, Lc!progress, Lc!speakers, Lc!ending, Lc!Size, LcPositions, LcTold
  <1>3. LcHearing'
    BY DEF Lc!LastDiarized, Lc!Goto, Lc!DiarizeResult, Lc!input, Lc!progress, Lc!speakers, Lc!ending, Lc!Size, LcHearing, LcType, LcFinish
  <1>4. LcTranscribed'
    BY DEF Lc!LastDiarized, Lc!Goto, Lc!DiarizeResult, Lc!input, Lc!progress, Lc!speakers, Lc!ending, Lc!Size, LcTranscribed, LcWords, LcType, LcFinish, LcEarly, LcLast
  <1>5. LcFinish'
    BY DEF Lc!LastDiarized, Lc!Goto, Lc!DiarizeResult, Lc!input, Lc!progress, Lc!speakers, Lc!ending, Lc!Size, LcFinish, LcWords, LcType, LcLast, LcTranscribed, LcEarly
  <1>6. Lc!CompletedIsWhole'
    BY DEF Lc!LastDiarized, Lc!Goto, Lc!DiarizeResult, Lc!input, Lc!progress, Lc!speakers, Lc!ending, Lc!Size, Lc!CompletedIsWhole, LcFinish, LcLast, LcType, LcWords
  <1> QED
    BY <1>1, <1>2, <1>3, <1>4, <1>5, <1>6

\* Publishing the end keeps the invariant.
LEMMA LcPublish == ASSUME LcInv, Lc!Publish PROVE LcInv'
  <1> USE DEF LcInv
  <1>1. LcType'
    <2>1. UNCHANGED <<Lc!Size, frames, nextSample, held, audio, appending, heard, lastSpeech, stopped,
                      processed, attempt, words, asr, asrFailed, diar, diarUntil, diarFailed,
                      interrupted, state, alive>>
      BY DEF Lc!Publish, Lc!Goto, Lc!input, Lc!progress, Lc!speakers, Lc!ending, Lc!Size
    <2>2. stable' \in {stable, Lc!Size} /\ finish' \in {"leaving", "saving"}
      BY DEF Lc!Publish, Lc!Goto, Lc!progress
    <2>3. stable' \in 0..Lc!Size
      <3>1. Lc!Size \in Nat
        BY LcCounts
      <3>2. stable \in 0..Lc!Size
        BY DEF LcType
      <3> QED
        BY <2>2, <3>1, <3>2
    <2>4. LcType
      OBVIOUS
    <2> HIDE DEF LcInv
    <2> QED
      BY <2>1, <2>2, <2>3, <2>4 DEF LcType
  <1>2. LcPositions'
    BY DEF Lc!Publish, Lc!Goto, Lc!input, Lc!progress, Lc!speakers, Lc!ending, Lc!Size, LcPositions, LcTold
  <1>3. LcHearing'
    BY DEF Lc!Publish, Lc!Goto, Lc!input, Lc!progress, Lc!speakers, Lc!ending, Lc!Size, LcHearing, LcType, LcFinish
  <1>4. LcTranscribed'
    BY DEF Lc!Publish, Lc!Goto, Lc!input, Lc!progress, Lc!speakers, Lc!ending, Lc!Size, LcTranscribed, LcWords, LcType, LcFinish, LcEarly, LcLast
  <1>5. LcFinish'
    BY DEF Lc!Publish, Lc!Goto, Lc!input, Lc!progress, Lc!speakers, Lc!ending, Lc!Size, LcFinish, LcWords, LcType, LcLast, LcTranscribed, LcEarly
  <1>6. Lc!CompletedIsWhole'
    BY DEF Lc!Publish, Lc!Goto, Lc!input, Lc!progress, Lc!speakers, Lc!ending, Lc!Size, Lc!CompletedIsWhole, LcFinish, LcLast, LcType, LcWords
  <1> QED
    BY <1>1, <1>2, <1>3, <1>4, <1>5, <1>6

\* Completing the session keeps the invariant: the transcript covers the recording.
LEMMA LcConclude == ASSUME LcInv, Lc!Conclude PROVE LcInv'
  <1> USE DEF LcInv
  <1>1. LcType'
    BY DEF Lc!Conclude, Lc!Outcome, Lc!input, Lc!progress, Lc!speakers, Lc!ending, Lc!Size, LcType
  <1>2. LcPositions'
    BY DEF Lc!Conclude, Lc!Outcome, Lc!input, Lc!progress, Lc!speakers, Lc!ending, Lc!Size, LcPositions, LcTold
  <1>3. LcHearing'
    BY DEF Lc!Conclude, Lc!Outcome, Lc!input, Lc!progress, Lc!speakers, Lc!ending, Lc!Size, LcHearing, LcType, LcFinish
  <1>4. LcTranscribed'
    BY DEF Lc!Conclude, Lc!Outcome, Lc!input, Lc!progress, Lc!speakers, Lc!ending, Lc!Size, LcTranscribed, LcWords, LcType, LcFinish, LcEarly, LcLast
  <1>5. LcFinish'
    BY DEF Lc!Conclude, Lc!Outcome, Lc!input, Lc!progress, Lc!speakers, Lc!ending, Lc!Size, LcFinish, LcWords, LcType, LcLast, LcTranscribed, LcEarly
  <1>6. Lc!CompletedIsWhole'
    BY DEF Lc!Conclude, Lc!Outcome, Lc!input, Lc!progress, Lc!speakers, Lc!ending, Lc!Size, Lc!CompletedIsWhole, LcFinish, LcLast, LcType, LcWords
  <1> QED
    BY <1>1, <1>2, <1>3, <1>4, <1>5, <1>6

\* Releasing the session keeps the invariant.
LEMMA LcRelease == ASSUME LcInv, Lc!Release PROVE LcInv'
  <1> USE DEF LcInv
  <1>1. LcType'
    BY DEF Lc!Release, Lc!Ended, Lc!Goto, Lc!input, Lc!progress, Lc!speakers, Lc!ending, Lc!Size, LcType
  <1>2. LcPositions'
    BY DEF Lc!Release, Lc!Ended, Lc!Goto, Lc!input, Lc!progress, Lc!speakers, Lc!ending, Lc!Size, LcPositions, LcTold
  <1>3. LcHearing'
    BY DEF Lc!Release, Lc!Ended, Lc!Goto, Lc!input, Lc!progress, Lc!speakers, Lc!ending, Lc!Size, LcHearing, LcType, LcFinish
  <1>4. LcTranscribed'
    BY DEF Lc!Release, Lc!Ended, Lc!Goto, Lc!input, Lc!progress, Lc!speakers, Lc!ending, Lc!Size, LcTranscribed, LcWords, LcType, LcFinish, LcEarly, LcLast
  <1>5. LcFinish'
    BY DEF Lc!Release, Lc!Ended, Lc!Goto, Lc!input, Lc!progress, Lc!speakers, Lc!ending, Lc!Size, LcFinish, LcWords, LcType, LcLast, LcTranscribed, LcEarly
  <1>6. Lc!CompletedIsWhole'
    BY DEF Lc!Release, Lc!Ended, Lc!Goto, Lc!input, Lc!progress, Lc!speakers, Lc!ending, Lc!Size, Lc!CompletedIsWhole, LcFinish, LcLast, LcType, LcWords
  <1> QED
    BY <1>1, <1>2, <1>3, <1>4, <1>5, <1>6

\* A finish that fails keeps the invariant.
LEMMA LcFinishFails == ASSUME LcInv, Lc!FinishFails PROVE LcInv'
  <1> USE DEF LcInv
  <1>1. LcType'
    BY DEF Lc!FinishFails, Lc!input, Lc!progress, Lc!speakers, Lc!ending, Lc!Size, LcType
  <1>2. LcPositions'
    BY DEF Lc!FinishFails, Lc!input, Lc!progress, Lc!speakers, Lc!ending, Lc!Size, LcPositions, LcTold
  <1>3. LcHearing'
    BY DEF Lc!FinishFails, Lc!input, Lc!progress, Lc!speakers, Lc!ending, Lc!Size, LcHearing, LcType, LcFinish
  <1>4. LcTranscribed'
    BY DEF Lc!FinishFails, Lc!input, Lc!progress, Lc!speakers, Lc!ending, Lc!Size, LcTranscribed, LcWords, LcType, LcFinish, LcEarly, LcLast
  <1>5. LcFinish'
    BY DEF Lc!FinishFails, Lc!input, Lc!progress, Lc!speakers, Lc!ending, Lc!Size, LcFinish, LcWords, LcType, LcLast, LcTranscribed, LcEarly
  <1>6. Lc!CompletedIsWhole'
    BY DEF Lc!FinishFails, Lc!input, Lc!progress, Lc!speakers, Lc!ending, Lc!Size, Lc!CompletedIsWhole, LcFinish, LcLast, LcType, LcWords
  <1> QED
    BY <1>1, <1>2, <1>3, <1>4, <1>5, <1>6

\* append has returned: the last speech is the last of all speech.
LEMMA LcFed == ASSUME LcInv, Lc!Fed PROVE LcInv'
  <1> USE DEF LcInv
  <1>1. /\ appending = "fed" /\ appending' = "idle" /\ heard = Lc!Size
        /\ UNCHANGED <<frames, nextSample, held, audio, heard, stopped, Lc!Size, processed, attempt, stable,
                       words, asr, asrFailed, diar, diarUntil, diarFailed, finish, interrupted, state, alive>>
    BY DEF Lc!Fed, Lc!progress, Lc!speakers, Lc!ending, LcHearing, Lc!Size
  <1>2. lastSpeech' = Lc!Max(Lc!Speech(heard) \cup {0})
    BY DEF Lc!Fed
  <1>3. heard \in Nat /\ lastSpeech \in 0..heard
    BY DEF LcType, Lc!Size
  <1>4. Lc!Speech(heard) \cup {0} \subseteq 0..heard
    BY <1>3 DEF Lc!Speech
  <1>5. /\ Lc!Max(Lc!Speech(heard) \cup {0}) \in Lc!Speech(heard) \cup {0}
        /\ \A u \in Lc!Speech(heard) \cup {0} : Lc!Max(Lc!Speech(heard) \cup {0}) >= u
    BY <1>3, <1>4, LcMax
  <1>6. PICK last \in 0..heard :
          /\ lastSpeech' = last /\ last >= lastSpeech
          /\ (last > 0 => audio[last] = "speech") /\ \A u \in 1..heard : audio[u] = "speech" => u <= last
    <2>1. PICK last \in Lc!Speech(heard) \cup {0} :
            last = lastSpeech' /\ \A u \in Lc!Speech(heard) \cup {0} : last >= u
      BY <1>2, <1>5
    <2>2. last \in 0..heard /\ (last > 0 => audio[last] = "speech")
      BY <1>3, <1>4, <2>1 DEF Lc!Speech
    <2>3. \A u \in 1..heard : audio[u] = "speech" => u <= last
      BY <1>3, <2>1, <2>2 DEF Lc!Speech
    <2>4. last >= lastSpeech
      BY <1>3, <2>2, <2>3 DEF LcHearing
    <2> QED
      BY <2>1, <2>2, <2>3, <2>4
  <1>7. \A u \in last + 1..heard : audio[u] # "speech"
    <2>1. ASSUME NEW u \in last + 1..heard PROVE u \in 1..heard /\ ~(u <= last)
      BY <1>3
    <2> QED
      BY <1>6, <2>1
  <1>8. LcType'
    BY <1>1, <1>6 DEF LcType
  <1>9. LcPositions'
    BY <1>1 DEF LcPositions, LcTold, Lc!Size
  <1>10. LcHearing'
    BY <1>1, <1>6, <1>7 DEF LcHearing, Lc!Size
  <1>11. LcTranscribed'
    BY <1>1, <1>3, <1>6 DEF LcTranscribed, LcWords, LcType, Lc!Size
  <1>12. LcFinish'
    BY <1>1 DEF LcFinish, LcWords, Lc!Size
  <1>13. Lc!CompletedIsWhole'
    BY <1>1 DEF Lc!CompletedIsWhole, Lc!Size
  <1> QED
    BY <1>8, <1>9, <1>10, <1>11, <1>12, <1>13

\* The buffer grows at its end: what was known of it stays, and the new part is as it was sent.
LEMMA LcGrown ==
  ASSUME LcInv,
         \/ finish = "none" /\ finish' = "none"
         \/ finish = "closing" /\ finish' = "flushing" /\ Len(held') = 0,
         audio' \in Seq(LcHears), held' \in Seq(LcHears), Len(held') <= 1, Lc!Size' >= Lc!Size,
         \A u \in 1..Lc!Size : audio'[u] = audio[u],
         nextSample' \in 0..Recording, Lc!Size' + Len(held') = nextSample', nextSample' >= nextSample,
         finish # "none" => nextSample' = nextSample,
         frames' \subseteq [at : Lc!Units, sound : Lc!Sounds], LcPositions', appending' = "feeding",
         state' # "COMPLETED", state' \in {state, "FINALIZING"},
         UNCHANGED <<heard, lastSpeech, stopped, processed, attempt, stable, words, asr, asrFailed,
                     diar, diarUntil, diarFailed, interrupted, alive>>
  PROVE  LcInv'
  <1>0. audio \in Seq(LcHears)
    BY DEF LcInv, LcType
  <1>1. Lc!Size \in Nat /\ Lc!Size' \in Nat
    BY <1>0, LenProperties DEF Lc!Size
  <1> USE DEF LcInv
  <1>2. LcType'
    <2>1. \A n \in 0..Lc!Size : n \in 0..Lc!Size'
      BY <1>1
    <2>2. /\ heard' \in 0..Lc!Size' /\ lastSpeech' \in 0..heard' /\ processed' \in 0..Lc!Size'
          /\ attempt' \in 0..Lc!Size' /\ stable' \in 0..Lc!Size' /\ diar' \in 0..Lc!Size'
          /\ diarUntil' \in 0..Lc!Size'
      <3>1. /\ heard \in 0..Lc!Size /\ lastSpeech \in 0..heard /\ processed \in 0..Lc!Size
            /\ attempt \in 0..Lc!Size /\ stable \in 0..Lc!Size /\ diar \in 0..Lc!Size
            /\ diarUntil \in 0..Lc!Size
        BY DEF LcType
      <3> HIDE DEF LcInv
      <3> QED
        BY <2>1, <3>1
    <2>3. asr \in [pc : {"idle", "running"}, begin : Nat, end : 0..Lc!Size', final : BOOLEAN]
      BY <2>1 DEF LcType
    <2>4. LcType
      OBVIOUS
    <2> HIDE DEF LcInv
    <2> QED
      BY <2>2, <2>3, <2>4 DEF LcType
  <1>3. \A u \in 1..Lc!Size : audio'[u] = audio[u]
    OBVIOUS
  <1>4. LcHearing'
    <2>1. lastSpeech \in 0..heard /\ heard \in 0..Lc!Size
      BY DEF LcType
    <2>2. lastSpeech \in 1..Lc!Size \/ lastSpeech = 0
      BY <1>1, <2>1
    <2> QED
      BY <1>3, <2>2 DEF LcHearing
  <1>5. LcTranscribed'
    <2>2. /\ stable <= processed /\ processed <= attempt /\ LcWords(processed)
          /\ (stable < processed => lastSpeech >= processed)
      BY DEF LcTranscribed, LcEarly
    <2>3. \A u \in 1..processed : audio'[u] = "speech" => words[u] # 0
      <3>1. ASSUME NEW u \in 1..processed PROVE audio'[u] = audio[u]
        BY <1>1, <1>3 DEF LcType
      <3> QED
        BY <2>2, <3>1 DEF LcWords
    <2>4. asr.pc = "running" =>
            /\ asr.begin < asr.end /\ processed < asr.end
            /\ \A u \in 1..asr.begin : u >= processed => audio'[u] # "speech"
      <3>1. asr.pc = "running" =>
              /\ asr.begin < asr.end /\ processed < asr.end
              /\ \A u \in 1..asr.begin : u >= processed => audio[u] # "speech"
        BY DEF LcTranscribed, LcEarly
      <3>2. asr.begin \in Nat /\ asr.end \in 0..Lc!Size
        BY DEF LcType
      <3>3. ASSUME asr.begin < asr.end, NEW u \in 1..asr.begin PROVE audio'[u] = audio[u]
        <4>1. u \in 1..Lc!Size
          BY <1>1, <3>2, <3>3
        <4> QED
          BY <1>3, <4>1
      <3> QED
        BY <3>1, <3>3
    <2> QED
      BY <2>2, <2>3, <2>4 DEF LcTranscribed, LcLast, LcWords
  <1>6. LcFinish'
    BY DEF LcFinish, LcLast
  <1>7. Lc!CompletedIsWhole'
    BY DEF Lc!CompletedIsWhole
  <1> QED
    BY <1>2, <1>4, <1>5, <1>6, <1>7

\* A frame lies at its own position: what is missing before it is a gap.
LEMMA LcReceive == ASSUME LcInv, NEW p \in Lc!Units, NEW sound \in Lc!Sounds, Lc!Receive(p, sound) PROVE LcInv'
  <1> USE DEF LcInv
  <1> DEFINE filled == Lc!Filled(p, sound)
  <1> DEFINE k == p - nextSample
  <1>1. p \in Nat /\ nextSample \in Nat /\ k \in Nat /\ k >= 1 /\ p <= Recording /\ Recording \in Nat
    BY CaptureAssumption DEF Lc!Receive, Lc!Units, LcType
  <1>2. /\ filled \in Seq(LcHears) /\ Len(filled) = k
        /\ \A u \in 1..k : filled[u] = IF u = k THEN sound ELSE "gap"
    BY <1>1 DEF Lc!Filled, LcHears, Lc!Sounds
  <1>3. PICK kept \in 0..1 :
          /\ audio' = audio \o SubSeq(held \o filled, 1, Len(held \o filled) - kept)
          /\ held' = SubSeq(held \o filled, Len(held \o filled) - kept + 1, Len(held \o filled))
    BY DEF Lc!Receive
  <1>4. /\ finish = "none" /\ frames' = frames \cup {[at |-> p, sound |-> sound]} /\ nextSample' = p
        /\ appending' = "feeding"
        /\ UNCHANGED <<heard, lastSpeech, stopped, processed, attempt, stable, words, asr, asrFailed,
                       diar, diarUntil, diarFailed, finish, interrupted, state, alive>>
    BY DEF Lc!Receive, Lc!progress, Lc!speakers, Lc!ending
  <1> HIDE DEF filled, k
  <1> DEFINE size == Len(audio)
  <1>5. audio \in Seq(LcHears) /\ held \in Seq(LcHears) /\ size \in Nat /\ Len(held) \in Nat
        /\ size + Len(held) = nextSample /\ size = Lc!Size
    BY DEF LcType, Lc!Size
  <1>6. /\ audio' \in Seq(LcHears) /\ held' \in Seq(LcHears)
        /\ Len(audio') = size + Len(held) + k - kept /\ Len(held') = kept
        /\ \A u \in 1..Len(audio') :
               audio'[u] = IF u <= size THEN audio[u]
                           ELSE IF u <= size + Len(held) THEN held[u - size]
                           ELSE filled[u - size - Len(held)]
        /\ \A u \in 1..Len(held') : held'[u] = filled[k - kept + u]
    <2>1. Len(filled) >= 1
      BY <1>1, <1>2
    <2>2. /\ audio' \in Seq(LcHears) /\ held' \in Seq(LcHears)
          /\ LcLaid(audio, held, filled, kept, audio', held')
      <3>1. audio \in Seq(LcHears) /\ held \in Seq(LcHears) /\ filled \in Seq(LcHears)
        BY <1>2, <1>5
      <3>2. LcCut(audio, held, filled, kept, audio', held')
        BY <1>3 DEF LcCut
      <3> HIDE DEF LcInv, size
      <3> QED
        BY <2>1, <3>1, <3>2, LcJoined
    <2>3. Len(filled) = k
      BY <1>2
    <2> QED
      BY <2>2, <2>3 DEF LcLaid
  <1> HIDE DEF size
  <1>7. Len(audio') + Len(held') = p
    <2>1. /\ Len(audio') = size + Len(held) + k - kept /\ Len(held') = kept /\ k = p - nextSample
          /\ size + Len(held) = nextSample /\ kept \in 0..1
      BY <1>5, <1>6 DEF k
    <2>2. size \in Nat /\ Len(held) \in Nat /\ p \in Nat /\ nextSample \in Nat
      BY <1>1, <1>5
    <2> QED
      BY <2>1, <2>2
  <1>8. /\ \A f \in frames : f.at <= nextSample
        /\ \A u \in 1..size : LcTold(frames, u, audio[u])
        /\ \A u \in 1..Len(held) : LcTold(frames, size + u, held[u])
    BY <1>5 DEF LcPositions
  <1>9. \A u, x : u # p /\ LcTold(frames, u, x) => LcTold(frames', u, x)
    BY <1>4 DEF LcTold
  <1>10. \A u \in nextSample + 1..p : LcTold(frames', u, filled[u - nextSample])
    <2>1. ASSUME NEW u \in nextSample + 1..p PROVE LcTold(frames', u, filled[u - nextSample])
      <3>1. u - nextSample \in 1..k /\ (u - nextSample = k <=> u = p)
        BY <1>1 DEF k
      <3>2. filled[u - nextSample] = IF u = p THEN sound ELSE "gap"
        BY <1>2, <3>1
      <3>3. CASE u = p
        BY <1>4, <3>2, <3>3 DEF LcTold
      <3>4. CASE u # p
        <4>1. \A s \in Lc!Sounds : [at |-> u, sound |-> s] \notin frames
          BY <1>1, <1>8
        <4> QED
          BY <1>4, <3>2, <3>4, <4>1 DEF LcTold
      <3> QED
        BY <3>3, <3>4
    <2> QED
      BY <2>1
  <1>11. \A u \in 1..Len(audio') : LcTold(frames', u, audio'[u])
    <2>1. ASSUME NEW u \in 1..Len(audio') PROVE LcTold(frames', u, audio'[u])
      <3>1. CASE u <= size
        <4>1. u # p /\ u \in 1..size /\ audio'[u] = audio[u]
          BY <1>1, <1>5, <1>6, <2>1, <3>1 DEF k
        <4> QED
          BY <1>8, <1>9, <4>1
      <3>2. CASE size < u /\ u <= nextSample
        <4>1. u # p /\ u - size \in 1..Len(held) /\ size + (u - size) = u /\ audio'[u] = held[u - size]
          BY <1>1, <1>5, <1>6, <2>1, <3>2 DEF k
        <4> QED
          BY <1>8, <1>9, <4>1
      <3>3. CASE nextSample < u
        <4>1. u <= p /\ u > size + Len(held) /\ u - size - Len(held) = u - nextSample
          BY <1>1, <1>5, <1>7, <2>1, <3>3
        <4>2. u \in nextSample + 1..p
          BY <1>1, <2>1, <3>3, <4>1
        <4>3. audio'[u] = filled[u - nextSample]
          BY <1>5, <1>6, <2>1, <4>1
        <4> QED
          BY <1>10, <4>2, <4>3
      <3> QED
        BY <1>1, <1>5, <1>6, <3>1, <3>2, <3>3
    <2> QED
      BY <2>1
  <1>12. \A u \in 1..Len(held') : LcTold(frames', Len(audio') + u, held'[u])
    <2>1. ASSUME NEW u \in 1..Len(held') PROVE LcTold(frames', Len(audio') + u, held'[u])
      <3>1. u = 1 /\ kept = 1 /\ Len(audio') + u = p /\ k - kept + u = k /\ held'[u] = filled[k]
        BY <1>1, <1>6, <1>7
      <3>2. p \in nextSample + 1..p /\ p - nextSample = k
        BY <1>1 DEF k
      <3> QED
        BY <1>10, <3>1, <3>2
    <2> QED
      BY <2>1
  <1>13. LcPositions'
    <2>1. \A f \in frames' : f.at <= p
      <3>1. ASSUME NEW f \in frames PROVE f.at <= p
        <4>1. f \in [at : Lc!Units, sound : Lc!Sounds]
          BY <3>1 DEF LcType
        <4>2. f.at \in Lc!Units
          BY <4>1
        <4>3. f.at \in Nat
          BY <1>1, <4>2 DEF Lc!Units
        <4>4. f.at <= nextSample
          BY <1>8, <3>1
        <4>5. nextSample <= p
          BY <1>1 DEF k
        <4> QED
          BY <1>1, <4>3, <4>4, <4>5
      <3>2. ASSUME NEW f \in frames' PROVE f \in frames \/ f.at = p
        BY <1>4
      <3> QED
        BY <1>1, <3>1, <3>2
    <2> QED
      BY <1>4, <1>11, <1>12, <2>1 DEF LcPositions, Lc!Size
  <1>14. /\ Lc!Size' >= Lc!Size /\ \A u \in 1..Lc!Size : audio'[u] = audio[u]
    <2>1. Len(audio') = size + Len(held) + k - kept /\ size = Len(audio) /\ kept \in 0..1
      BY <1>6 DEF size
    <2>2. \A n \in Nat : n = size + Len(held) + k - kept => n >= size
      BY <1>1, <1>5, <2>1
    <2>3. Len(audio') \in Nat
      BY <1>6
    <2>4. Len(audio') >= size
      BY <2>1, <2>2, <2>3
    <2>5. \A u \in 1..size : u \in 1..Len(audio') /\ u <= size
      BY <1>5, <2>3, <2>4
    <2> QED
      BY <1>5, <1>6, <2>1, <2>4, <2>5 DEF Lc!Size
  <1>15. /\ nextSample' \in 0..Recording /\ Lc!Size' + Len(held') = nextSample' /\ nextSample' >= nextSample
         /\ Len(held') <= 1 /\ frames' \subseteq [at : Lc!Units, sound : Lc!Sounds]
    <2>1. p \in 0..Recording /\ p >= nextSample
      BY <1>1 DEF k
    <2>2. Len(held') <= 1
      BY <1>6
    <2>3. frames' \subseteq [at : Lc!Units, sound : Lc!Sounds]
      BY <1>4 DEF LcType
    <2> QED
      BY <1>4, <1>7, <2>1, <2>2, <2>3 DEF Lc!Size
  <1>16. state' # "COMPLETED"
    BY <1>4 DEF LcFinish
  <1>17. audio' \in Seq(LcHears) /\ held' \in Seq(LcHears) /\ state' \in {state, "FINALIZING"}
    BY <1>4, <1>6
  <1> HIDE DEF LcInv
  <1> QED
    BY <1>4, <1>13, <1>14, <1>15, <1>16, <1>17, LcGrown

\* finish() appends what the resampler holds.
LEMMA LcFlushed == ASSUME LcInv, Lc!Flushed PROVE LcInv'
  <1> USE DEF LcInv
  <1>1. CASE finish' = "leaving"
    <2>1. /\ finish = "closing" /\ UNCHANGED <<Lc!Size, frames, nextSample, held, audio, appending, heard,
             lastSpeech, stopped, processed, attempt, stable, words, asr, asrFailed, diar, diarUntil,
             diarFailed, interrupted, state, alive>>
      BY <1>1 DEF Lc!Flushed, Lc!Goto, Lc!input, Lc!progress, Lc!speakers, Lc!Size
    <2>2. LcType'
      BY <1>1, <2>1 DEF LcType, Lc!Size
    <2>3. LcPositions' /\ LcHearing' /\ Lc!CompletedIsWhole'
      BY <1>1, <2>1 DEF LcPositions, LcTold, LcHearing, Lc!CompletedIsWhole, LcFinish, Lc!Size
    <2>4. LcTranscribed' /\ LcFinish'
      BY <1>1, <2>1 DEF LcTranscribed, LcFinish, LcEarly, LcLast, Lc!Size
    <2> QED
      BY <2>2, <2>3, <2>4
  <1>2. CASE finish' # "leaving"
    <2>1. /\ finish = "closing" /\ finish' = "flushing" /\ state' = "FINALIZING" /\ appending' = "feeding"
          /\ audio' = audio \o held /\ held' = <<>>
          /\ UNCHANGED <<frames, nextSample, heard, lastSpeech, stopped, processed, attempt, stable,
                         words, asr, asrFailed, diar, diarUntil, diarFailed, interrupted, alive>>
      BY <1>2 DEF Lc!Flushed, Lc!Goto, Lc!Flush, Lc!progress, Lc!speakers
    <2>2. audio \in Seq(LcHears) /\ held \in Seq(LcHears) /\ Len(audio) \in Nat /\ Len(held) \in Nat
          /\ Len(audio) + Len(held) = nextSample
      BY DEF LcType, Lc!Size
    <2>3. /\ audio' \in Seq(LcHears) /\ Len(audio') = Len(audio) + Len(held)
          /\ \A u \in 1..Len(audio) + Len(held) :
                 audio'[u] = IF u <= Len(audio) THEN audio[u] ELSE held[u - Len(audio)]
      BY <2>1, <2>2, ConcatProperties
    <2>4. held' \in Seq(LcHears) /\ Len(held') = 0
      BY <2>1
    <2>5. LcPositions'
      <3>1. ASSUME NEW u \in 1..Len(audio') PROVE LcTold(frames, u, audio'[u])
        <4>1. CASE u <= Len(audio)
          BY <2>2, <2>3, <4>1 DEF LcPositions, Lc!Size
        <4>2. CASE ~(u <= Len(audio))
          <5>1. u - Len(audio) \in 1..Len(held) /\ Len(audio) + (u - Len(audio)) = u
            BY <2>2, <2>3, <4>2
          <5>2. audio'[u] = held[u - Len(audio)]
            BY <2>2, <2>3, <4>2
          <5> QED
            BY <5>1, <5>2 DEF LcPositions, Lc!Size
        <4> QED
          BY <4>1, <4>2
      <3> QED
        BY <2>1, <2>4, <3>1 DEF LcPositions, LcTold, Lc!Size
    <2>6. Lc!Size' >= Lc!Size /\ \A u \in 1..Lc!Size : audio'[u] = audio[u]
      BY <2>2, <2>3 DEF Lc!Size
    <2>7. nextSample' \in 0..Recording /\ Lc!Size' + Len(held') = nextSample' /\ nextSample' >= nextSample
      BY <2>1, <2>2, <2>3, <2>4, CaptureAssumption DEF LcType, Lc!Size
    <2>8. frames' \subseteq [at : Lc!Units, sound : Lc!Sounds]
      BY <2>1 DEF LcType
    <2>9. Len(held') <= 1 /\ finish # "none" /\ nextSample' = nextSample /\ state' # "COMPLETED"
          /\ state' \in {state, "FINALIZING"}
      BY <2>1, <2>4
    <2>10. audio' \in Seq(LcHears)
      BY <2>3
    <2> HIDE DEF LcInv
    <2> QED
      BY <2>1, <2>4, <2>5, <2>6, <2>7, <2>8, <2>9, <2>10, LcGrown
  <1> QED
    BY <1>1, <1>2

\* Where a window starts: all speech that the detector knows of in it lies behind its start, and
\* it starts with one; a window without speech has none.
LcNoSpeech(from, to) == \A u \in 1..to : u >= from => audio[u] # "speech"

\* Where the last words end in silence no speech is left; elsewhere the window begins before them.
LEMMA LcRelevant ==
  ASSUME LcInv, NEW end \in 0..Lc!Size
  PROVE  /\ Lc!IsSilent(end) /\ end <= heard => LcNoSpeech(processed, end)
         /\ ~Lc!IsSilent(end) =>
              \E begin \in Nat : /\ begin = Lc!SpeechWindowStart(end) /\ begin < end
                                 /\ LcNoSpeech(processed, begin)
  <1>1. Lc!Size \in Nat /\ end \in Nat /\ heard \in Nat /\ processed \in Nat
    BY DEF LcInv, LcType, Lc!Size
  <1> DEFINE known == Lc!Least(end, heard)
  <1>2. known \in Nat /\ known <= end /\ known <= heard /\ (end <= heard => known = end)
    BY <1>1 DEF Lc!Least
  <1>3. \A u : u \in Lc!Relevant(end) <=> u \in 1..known /\ audio[u] = "speech" /\ u >= processed
    BY DEF Lc!Relevant, Lc!Speech
  <1> HIDE DEF known
  <1>4. CASE Lc!IsSilent(end)
    BY <1>2, <1>3, <1>4 DEF Lc!IsSilent, LcNoSpeech
  <1>5. CASE ~Lc!IsSilent(end)
    <2>1. Lc!Relevant(end) # {} /\ Lc!Relevant(end) \subseteq Nat
      BY <1>2, <1>3, <1>5 DEF Lc!IsSilent
    <2>2. PICK m \in Lc!Relevant(end) : m = Lc!Min(Lc!Relevant(end)) /\ \A u \in Lc!Relevant(end) : m <= u
      BY <2>1, LcMin
    <2>3. m \in 1..known
      BY <1>3, <2>2
    <2>4. m - 1 \in Nat /\ m - 1 < end /\ m - 1 = Lc!SpeechWindowStart(end)
      BY <1>1, <1>2, <2>2, <2>3 DEF Lc!SpeechWindowStart
    <2>5. LcNoSpeech(processed, m - 1)
      <3>1. SUFFICES ASSUME NEW u \in 1..m - 1, u >= processed, audio[u] = "speech" PROVE FALSE
        BY DEF LcNoSpeech
      <3>2. u \in 1..known /\ u < m
        BY <1>2, <2>3
      <3>3. u \in Lc!Relevant(end)
        BY <1>3, <3>1, <3>2
      <3> QED
        BY <2>2, <2>3, <3>2, <3>3
    <2> QED
      BY <1>5, <2>4, <2>5
  <1> QED
    BY <1>4, <1>5

\* A window ends in the buffer.
LEMMA LcWindow == ASSUME LcInv PROVE Lc!Window \in 0..Lc!Size /\ (processed < Lc!Size => Lc!Window > processed)
  <1>1. Lc!Size \in Nat /\ processed \in 0..Lc!Size
    BY LcCounts DEF LcInv, LcType
  <1>2. WINDOW \in Nat \ {0}
    BY CaptureAssumption
  <1> QED
    BY <1>1, <1>2 DEF Lc!Window, Lc!Least

\* A window without speech is processed without a word.
LEMMA LcSkip ==
  ASSUME LcInv, NEW end \in 0..Lc!Size, end > processed, LcNoSpeech(processed, end), Lc!Skip(end), asr.pc # "running",
         finish \in {"none", "draining"}, finish' = finish, UNCHANGED <<interrupted, state, alive>>,
         UNCHANGED Lc!input, UNCHANGED Lc!speakers
  PROVE  LcInv'
  <1> USE DEF LcInv
  <1>1. /\ processed' = end /\ attempt' = end /\ stable' = end
        /\ UNCHANGED <<Lc!Size, frames, nextSample, held, audio, appending, heard, lastSpeech, stopped,
                       words, asr, asrFailed, diar, diarUntil, diarFailed>>
    BY DEF Lc!Skip, Lc!input, Lc!speakers, Lc!Size
  <1>2. end \in Nat /\ processed \in Nat
    BY DEF LcType, Lc!Size
  <1>3. LcWords(end)
    <2>1. ASSUME NEW u \in 1..end, audio[u] = "speech" PROVE words[u] # 0
      <3>1. ~(u >= processed)
        BY <2>1 DEF LcNoSpeech
      <3>2. u \in 1..processed
        BY <1>2, <3>1
      <3> QED
        BY <2>1, <3>2 DEF LcTranscribed, LcWords, LcEarly
    <2> QED
      BY <2>1 DEF LcWords
  <1>4. LcType'
    BY <1>1 DEF LcType, Lc!Size
  <1>5. LcPositions' /\ LcHearing'
    BY <1>1 DEF LcPositions, LcTold, LcHearing, Lc!Size
  <1>6. LcTranscribed'
    <2>1. asr.pc # "running"
      OBVIOUS
    <2> QED
      BY <1>1, <1>2, <1>3, <2>1 DEF LcTranscribed, LcWords, LcEarly, LcLast
  <1>7. LcFinish'
    BY <1>1 DEF LcFinish, LcLast, Lc!Size
  <1>8. Lc!CompletedIsWhole'
    BY <1>1 DEF LcFinish, Lc!CompletedIsWhole
  <1> QED
    BY <1>4, <1>5, <1>6, <1>7, <1>8

\* A window with speech is transcribed from its first speech on.
LEMMA LcStart ==
  ASSUME LcInv, NEW end \in 0..Lc!Size, end > processed, ~Lc!IsSilent(end), NEW final \in BOOLEAN,
         Lc!Start(end, final),
         \/ finish = "none" /\ finish' = "none"
         \/ finish = "draining" /\ finish' = "transcribing",
         UNCHANGED <<interrupted, state, alive>>, UNCHANGED Lc!input, UNCHANGED Lc!speakers
  PROVE  LcInv'
  <1> USE DEF LcInv
  <1>1. /\ UNCHANGED <<Lc!Size, frames, nextSample, held, audio, appending, heard, lastSpeech, stopped,
                       processed, attempt, stable, words, asrFailed, diar, diarUntil, diarFailed>>
        /\ asr' = [pc |-> "running", begin |-> Lc!SpeechWindowStart(end), end |-> end, final |-> final]
    BY DEF Lc!Start, Lc!input, Lc!speakers, Lc!Size
  <1>2. PICK begin \in Nat : begin = Lc!SpeechWindowStart(end) /\ begin < end /\ LcNoSpeech(processed, begin)
    BY LcRelevant
  <1>3. /\ asr' \in [pc : {"idle", "running"}, begin : Nat, end : 0..Lc!Size, final : BOOLEAN]
        /\ asr'.pc = "running" /\ asr'.begin = begin /\ asr'.end = end
    BY <1>1, <1>2
  <1>4. LcType'
    BY <1>1, <1>3 DEF LcType, Lc!Size
  <1>5. LcPositions' /\ LcHearing'
    BY <1>1 DEF LcPositions, LcTold, LcHearing, Lc!Size
  <1>6. LcTranscribed'
    BY <1>1, <1>2, <1>3 DEF LcTranscribed, LcWords, LcNoSpeech, LcEarly, LcLast
  <1>7. LcFinish'
    BY <1>1, <1>3 DEF LcFinish, LcLast, Lc!Size
  <1>8. Lc!CompletedIsWhole'
    BY <1>1 DEF LcFinish, Lc!CompletedIsWhole
  <1> QED
    BY <1>4, <1>5, <1>6, <1>7, <1>8

\* Scheduling a transcription keeps the invariant: its window begins no later than what is unread.
LEMMA LcSchedule == ASSUME LcInv, Lc!Schedule PROVE LcInv'
  <1> DEFINE end == Lc!Window
  <1>1. end \in 0..Lc!Size /\ end > processed
    BY LcWindow DEF Lc!Schedule
  <1>2. /\ finish = "none" /\ finish' = "none" /\ asr.pc = "idle" /\ UNCHANGED <<interrupted, state, alive>>
        /\ UNCHANGED Lc!input /\ UNCHANGED Lc!speakers
        /\ lastSpeech > attempt \/ (0 < processed /\ stable < processed)
    BY DEF Lc!Schedule, Lc!ending
  <1>3. CASE Lc!IsSilent(end) /\ Lc!Skip(end)
    <2>1. lastSpeech \in Nat /\ heard \in Nat /\ processed \in Nat /\ attempt \in Nat /\ end \in Nat
          /\ lastSpeech <= heard
      BY <1>1 DEF LcInv, LcType, Lc!Size
    <2>2. lastSpeech >= processed /\ lastSpeech > 0 /\ audio[lastSpeech] = "speech"
      BY <1>2, <2>1 DEF LcInv, LcTranscribed, LcEarly, LcHearing
    <2>3. end <= heard
      <3>1. SUFFICES ASSUME heard < end PROVE FALSE
        BY <2>1
      <3>2. lastSpeech \in Lc!Relevant(end)
        BY <2>1, <2>2, <3>1 DEF Lc!Relevant, Lc!Speech, Lc!Least
      <3> QED
        BY <1>3, <3>2 DEF Lc!IsSilent
    <2>4. LcNoSpeech(processed, end)
      BY <1>1, <1>3, <2>3, LcRelevant
    <2> HIDE DEF end
    <2> QED
      BY <1>1, <1>2, <1>3, <2>4, LcSkip
  <1>4. CASE ~Lc!IsSilent(end) /\ Lc!Start(end, FALSE)
    <2> HIDE DEF end
    <2> QED
      BY <1>1, <1>2, <1>4, LcStart
  <1> QED
    BY <1>3, <1>4 DEF Lc!Schedule

\* The same for the windows of the drain.
LEMMA LcDrain == ASSUME LcInv, Lc!Drain PROVE LcInv'
  <1> DEFINE end == Lc!Window
  <1>1. /\ finish = "draining" /\ asr.pc # "running" /\ UNCHANGED <<interrupted, state, alive>>
        /\ UNCHANGED Lc!input /\ UNCHANGED Lc!speakers
    BY DEF Lc!Drain, Lc!Goto, LcInv, LcFinish
  <1>2. end \in 0..Lc!Size /\ end > processed
    BY LcWindow DEF Lc!Drain
  <1>3. heard = Lc!Size /\ \A u \in lastSpeech + 1..Lc!Size : audio[u] # "speech"
    BY <1>1 DEF LcInv, LcFinish, LcHearing
  <1>4. CASE lastSpeech = 0 /\ processed' = Lc!Size /\ finish' = "ready"
             /\ UNCHANGED <<attempt, stable, words, asr, asrFailed>>
    <2> USE DEF LcInv
    <2>1. UNCHANGED <<Lc!Size, frames, nextSample, held, audio, appending, heard, lastSpeech, stopped,
                      diar, diarUntil, diarFailed>>
      BY <1>1 DEF Lc!input, Lc!speakers, Lc!Size
    <2>2. LcWords(Lc!Size)
      BY <1>3, <1>4 DEF LcWords
    <2>3. Lc!Size \in Nat /\ stable \in 0..Lc!Size
      BY DEF LcType, Lc!Size
    <2>4. LcType'
      BY <1>1, <1>4, <2>1, <2>3 DEF LcType, Lc!Size
    <2>5. LcPositions' /\ LcHearing' /\ Lc!CompletedIsWhole'
      BY <1>1, <1>4, <2>1 DEF LcPositions, LcTold, LcHearing, LcFinish, Lc!CompletedIsWhole, Lc!Size
    <2>6. LcTranscribed'
      BY <1>4, <2>1, <2>2, <2>3 DEF LcTranscribed, LcWords, LcEarly, LcLast
    <2>7. LcFinish'
      BY <1>1, <1>4, <2>1, <2>2 DEF LcFinish, LcWords, LcLast, Lc!Size
    <2> QED
      BY <2>4, <2>5, <2>6, <2>7
  <1>5. CASE Lc!IsSilent(end) /\ Lc!Skip(end) /\ finish' = "draining"
    <2>1. end <= heard
      BY <1>2, <1>3 DEF LcInv, LcType, Lc!Size
    <2>2. LcNoSpeech(processed, end)
      BY <1>2, <1>5, <2>1, LcRelevant
    <2> HIDE DEF end
    <2> QED
      BY <1>1, <1>2, <1>5, <2>2, LcSkip
  <1>6. CASE ~Lc!IsSilent(end) /\ Lc!Start(end, end = Lc!Size) /\ finish' = "transcribing"
    <2>1. (end = Lc!Size) \in BOOLEAN
      OBVIOUS
    <2> HIDE DEF end
    <2> QED
      BY <1>1, <1>2, <1>6, <2>1, LcStart
  <1> QED
    BY <1>4, <1>5, <1>6 DEF Lc!Drain, Lc!Goto

\* What a transcription may leave: a result that is merged, or an error, or nothing at all when the
\* session is gone.
LEMMA LcMerged ==
  ASSUME LcInv, NEW wording \in 1..Inferences, finish \in LcEarly, asr.pc = "running",
         words' = Lc!Merged(wording)
  PROVE  \A u \in 1..asr.end : audio[u] = "speech" => words'[u] # 0
  <1> USE DEF LcInv
  <1>1. /\ asr.end \in 0..Lc!Size /\ asr.begin \in Nat /\ processed \in Nat /\ stable \in Nat
        /\ Lc!Size \in Nat /\ Lc!Size <= nextSample /\ nextSample \in 0..Recording /\ Recording \in Nat
    <2>1. Lc!Size \in Nat /\ Len(held) \in Nat /\ Recording \in Nat
      BY LcCounts, CaptureAssumption
    <2>2. /\ asr.end \in 0..Lc!Size /\ asr.begin \in Nat /\ processed \in 0..Lc!Size /\ stable \in 0..Lc!Size
          /\ Lc!Size + Len(held) = nextSample /\ nextSample \in 0..Recording
      BY DEF LcType
    <2> HIDE DEF LcInv
    <2> QED
      BY <2>1, <2>2
  <1>2. /\ stable <= processed /\ processed < asr.end /\ LcWords(processed)
        /\ LcNoSpeech(processed, asr.begin)
    BY DEF LcTranscribed, LcEarly, LcNoSpeech
  <1>3. SUFFICES ASSUME NEW u \in 1..asr.end, audio[u] = "speech" PROVE words'[u] # 0
    OBVIOUS
  <1>4. u \in Lc!Units /\ u \in Nat /\ u >= 1
    BY <1>1 DEF Lc!Units
  <1>5. words'[u] = IF u \in asr.begin + 1..asr.end /\ u > stable
                    THEN IF audio[u] = "speech" THEN wording ELSE 0 ELSE words[u]
    BY <1>4 DEF Lc!Merged
  <1>6. CASE u \in asr.begin + 1..asr.end /\ u > stable
    BY <1>3, <1>5, <1>6
  <1>7. CASE ~(u \in asr.begin + 1..asr.end /\ u > stable)
    <2>1. words'[u] = words[u]
      BY <1>5, <1>7
    <2>2. u <= processed
      <3>1. CASE u <= stable
        BY <1>1, <1>2, <1>4, <3>1
      <3>2. CASE u > stable
        <4>1. u \in 1..asr.begin
          BY <1>1, <1>3, <1>4, <1>7, <3>2
        <4>2. ~(u >= processed)
          BY <1>2, <1>3, <4>1 DEF LcNoSpeech
        <4> QED
          BY <1>1, <1>4, <4>2
      <3> QED
        BY <1>1, <1>4, <3>1, <3>2
    <2>3. words[u] # 0
      BY <1>2, <1>3, <1>4, <2>2 DEF LcWords
    <2> QED
      BY <2>1, <2>3
  <1> QED
    BY <1>6, <1>7

\* What counts as stable grows, and stays inside the window that was read.
LEMMA LcStable ==
  ASSUME LcInv, stable' = Lc!StableAfter
  PROVE  /\ stable' \in 0..Lc!Size
         /\ stable <= asr.end => stable' <= asr.end /\ (stable' < asr.end => lastSpeech >= asr.end)
  <1>1. /\ asr.end \in 0..Lc!Size /\ stable \in 0..Lc!Size /\ Lc!Size \in Nat /\ lastSpeech \in Nat
    BY DEF LcInv, LcType, Lc!Size
  <1>2. PICK least \in 0..asr.end :
          /\ Lc!StableAfter = IF least > stable THEN least ELSE stable
          /\ least < asr.end => ~Lc!Silence(asr.end)
    <2>1. CASE asr.final \/ Lc!Silence(asr.end)
      BY <1>1, <2>1 DEF Lc!StableAfter
    <2>2. CASE ~(asr.final \/ Lc!Silence(asr.end)) /\ asr.end > 0
      <3>1. asr.end - 1 \in 0..asr.end
        BY <1>1, <2>2
      <3> QED
        BY <2>2, <3>1 DEF Lc!StableAfter
    <2>3. CASE ~(asr.final \/ Lc!Silence(asr.end)) /\ ~(asr.end > 0)
      BY <1>1, <2>3 DEF Lc!StableAfter
    <2> QED
      BY <2>1, <2>2, <2>3
  <1>3. PICK next \in 0..Lc!Size : next = stable' /\ next = IF least > stable THEN least ELSE stable
    BY <1>1, <1>2
  <1>4. stable <= asr.end => next <= asr.end /\ (next < asr.end => lastSpeech >= asr.end)
    <2>1. SUFFICES ASSUME stable <= asr.end PROVE next <= asr.end /\ (next < asr.end => lastSpeech >= asr.end)
      OBVIOUS
    <2>2. next <= asr.end
      BY <1>1, <1>2, <1>3, <2>1
    <2>3. next < asr.end => least < asr.end
      BY <1>1, <1>2, <1>3, <2>1
    <2>4. ~Lc!Silence(asr.end) => lastSpeech >= asr.end
      BY <1>1 DEF Lc!Silence
    <2> QED
      BY <1>2, <2>2, <2>3, <2>4
  <1> QED
    BY <1>3, <1>4

\* The result of a window keeps the invariant: what precedes it is transcribed or silent.
LEMMA LcResult ==
  ASSUME LcInv, Lc!Result, UNCHANGED Lc!input, UNCHANGED Lc!speakers, UNCHANGED <<interrupted, state, alive>>,
         \/ finish # "transcribing" /\ finish' = finish
         \/ finish = "transcribing" /\ finish' = IF processed' = processed THEN "ready" ELSE "draining"
  PROVE  LcInv'
  <1> USE DEF LcInv
  <1>1. /\ UNCHANGED <<Lc!Size, frames, nextSample, held, audio, appending, heard, lastSpeech, stopped,
                       diar, diarUntil, diarFailed>>
        /\ asr.pc = "running" /\ asr' = Lc!Idle /\ attempt' = asr.end
    BY DEF Lc!Result, Lc!input, Lc!speakers, Lc!Size
  <1>2. Lc!Idle \in [pc : {"idle", "running"}, begin : Nat, end : 0..Lc!Size, final : BOOLEAN]
        /\ Lc!Idle.pc = "idle"
    BY LcCounts DEF Lc!Idle
  <1>3. /\ asr.end \in 0..Lc!Size /\ asr.end \in Nat /\ stable \in 0..Lc!Size /\ processed \in 0..Lc!Size
        /\ Lc!Size \in Nat
    BY LcCounts DEF LcType
  <1>4. finish \in LcEarly \ {"draining"} \/ finish = "leaving"
    BY <1>1 DEF LcFinish, LcType, LcEarly, LcLast
  <1>5. PICK done, final, text :
          /\ processed' = done /\ stable' = final /\ words' = text
          /\ done \in 0..Lc!Size /\ final \in 0..Lc!Size /\ text \in [Lc!Units -> 0..Inferences]
          /\ asrFailed' \in BOOLEAN
          /\ done = processed => ~alive \/ asrFailed' \/ finish = "leaving"
          /\ finish \in LcEarly =>
               /\ final <= done /\ done <= asr.end /\ (final < done => lastSpeech >= done)
               /\ \A u \in 1..done : audio[u] = "speech" => text[u] # 0
    <2>1. finish \in LcEarly => /\ stable <= processed /\ processed < asr.end /\ LcWords(processed)
                                /\ (stable < processed => lastSpeech >= processed)
      BY <1>1 DEF LcTranscribed, LcEarly
    <2>2. CASE alive /\ stable' = Lc!StableAfter /\ processed' = asr.end /\ asrFailed' \in BOOLEAN
               /\ \E wording \in 1..Inferences : words' = Lc!Merged(wording)
      <3>1. PICK wording \in 1..Inferences : words' = Lc!Merged(wording)
        BY <2>2
      <3>2. words' \in [Lc!Units -> 0..Inferences]
        BY <3>1, CaptureAssumption DEF Lc!Merged, LcType
      <3>3. finish \in LcEarly => \A u \in 1..asr.end : audio[u] = "speech" => words'[u] # 0
        BY <1>1, <3>1, LcMerged
      <3>4. /\ stable' \in 0..Lc!Size
            /\ stable <= asr.end => stable' <= asr.end /\ (stable' < asr.end => lastSpeech >= asr.end)
        BY <2>2, LcStable
      <3>5. finish \in LcEarly => stable <= asr.end /\ asr.end # processed
        BY <1>3, <2>1
      <3>6. asr.end <= asr.end
        BY <1>3
      <3>7. asr.end = processed => finish = "leaving"
        BY <1>4, <3>5 DEF LcEarly
      <3> QED
        BY <1>3, <2>2, <3>2, <3>3, <3>4, <3>5, <3>6, <3>7
    <2>3. CASE /\ words' = words /\ stable' = stable /\ processed' = processed
               /\ asrFailed' \in BOOLEAN /\ (~alive \/ asrFailed')
      <3>1. words \in [Lc!Units -> 0..Inferences]
        BY DEF LcType
      <3>2. finish \in LcEarly => processed <= asr.end
        BY <1>3, <2>1
      <3> QED
        BY <1>3, <2>1, <2>3, <3>1, <3>2 DEF LcWords
    <2> QED
      BY <2>2, <2>3 DEF Lc!Result, Lc!FailedStays, LcType
  <1>6. LcType'
    <2>1. finish' \in {finish, "ready", "draining"} /\ UNCHANGED <<interrupted, state, alive>>
      OBVIOUS
    <2> QED
      BY <1>1, <1>2, <1>3, <1>5, <2>1 DEF LcType
  <1>7. LcPositions' /\ LcHearing' /\ Lc!CompletedIsWhole'
    BY <1>1, <1>4 DEF LcPositions, LcTold, LcHearing, LcFinish, Lc!CompletedIsWhole, LcEarly, LcLast, Lc!Size
  <1>8. LcTranscribed'
    <2>1. CASE finish = "leaving"
      BY <1>1, <1>2, <2>1 DEF LcTranscribed, LcEarly, LcLast
    <2>2. CASE finish # "leaving"
      <3>1. finish \in LcEarly
        BY <1>4, <2>2
      <3>2. finish' \in LcEarly \cup {"ready"}
        BY <3>1 DEF LcEarly
      <3>3. /\ final <= done /\ done <= asr.end /\ (final < done => lastSpeech >= done)
            /\ \A u \in 1..done : audio[u] = "speech" => text[u] # 0
        BY <1>5, <3>1
      <3>4. \A u \in 1..final : u \in 1..done
        BY <1>3, <1>5, <3>3
      <3> QED
        BY <1>1, <1>2, <1>5, <3>2, <3>3, <3>4 DEF LcTranscribed, LcWords, LcEarly, LcLast
    <2> QED
      BY <2>1, <2>2
  <1>9. LcFinish'
    <2>1. CASE finish # "transcribing"
      BY <1>1, <1>2, <1>4, <2>1 DEF LcFinish, LcEarly, LcLast, Lc!Size
    <2>2. CASE finish = "transcribing" /\ finish' = "draining"
      BY <1>1, <1>2, <2>2 DEF LcFinish, LcLast, Lc!Size
    <2>3. CASE finish = "transcribing" /\ finish' = "ready" /\ (~alive \/ asrFailed')
      BY <1>1, <1>2, <2>3 DEF LcFinish, LcLast, Lc!Size
    <2> QED
      BY <1>5, <2>1, <2>2, <2>3
  <1> QED
    BY <1>6, <1>7, <1>8, <1>9

\* So do the two actions that bring one.
LEMMA LcTranscribes == ASSUME LcInv, Lc!Transcribed \/ Lc!Drained PROVE LcInv'
  BY LcResult DEF Lc!Transcribed, Lc!Drained, Lc!ending, Lc!Goto, Lc!Again

\* A session begins with nothing heard, read or running.
LEMMA LcInit == Lc!Init => LcInv
  <1> SUFFICES ASSUME Lc!Init PROVE LcInv
    OBVIOUS
  <1> USE DEF Lc!Init
  <1>1. Lc!Size = 0 /\ Len(held) = 0 /\ audio \in Seq(LcHears) /\ held \in Seq(LcHears)
    BY DEF Lc!Size
  <1>2. asr \in [pc : {"idle", "running"}, begin : Nat, end : 0..0, final : BOOLEAN] /\ asr.pc = "idle"
    BY DEF Lc!Idle
  <1>3. words \in [Lc!Units -> 0..Inferences] /\ 0 \in 0..Recording
    BY CaptureAssumption
  <1>4. LcType
    <2>1. /\ heard \in 0..Lc!Size /\ lastSpeech \in 0..heard /\ processed \in 0..Lc!Size
          /\ attempt \in 0..Lc!Size /\ stable \in 0..Lc!Size
          /\ diar \in 0..Lc!Size /\ diarUntil \in 0..Lc!Size
          /\ asr \in [pc : {"idle", "running"}, begin : Nat, end : 0..Lc!Size, final : BOOLEAN]
      BY <1>1, <1>2
    <2>4. /\ Lc!Size + Len(held) = nextSample /\ Len(held) <= 1 /\ nextSample \in 0..Recording
          /\ stopped \in 0..Recording
      BY <1>1, <1>3
    <2>2. frames \subseteq [at : Lc!Units, sound : Lc!Sounds]
      OBVIOUS
    <2>3. /\ appending = "idle" /\ finish = "none" /\ state = "RECORDING"
          /\ asrFailed = FALSE /\ diarFailed = FALSE /\ interrupted = FALSE /\ alive = TRUE
      OBVIOUS
    <2> HIDE DEF Lc!Init
    <2> QED
      BY <1>1, <1>3, <2>1, <2>2, <2>3, <2>4 DEF LcType
  <1>5. LcPositions /\ LcHearing /\ LcTranscribed
    BY <1>1, <1>2 DEF LcPositions, LcHearing, LcTranscribed, LcWords, LcLast
  <1>6. LcFinish /\ Lc!CompletedIsWhole
    BY <1>2 DEF LcFinish, LcLast, Lc!CompletedIsWhole
  <1> QED
    BY <1>4, <1>5, <1>6 DEF LcInv

\* A step of another module keeps the invariant.
LEMMA LcUnchanged == ASSUME LcInv, UNCHANGED Lc!vars PROVE LcInv'
  <1> USE DEF LcInv, Lc!vars
  <1>1. LcType'
    BY DEF LcType, Lc!Size
  <1>2. LcPositions' /\ LcHearing'
    BY DEF LcPositions, LcTold, LcHearing, Lc!Size
  <1>3. LcTranscribed' /\ LcFinish'
    BY DEF LcTranscribed, LcFinish, LcWords, Lc!Size
  <1>4. Lc!CompletedIsWhole'
    BY DEF Lc!CompletedIsWhole, Lc!Size
  <1> QED
    BY <1>1, <1>2, <1>3, <1>4

\* Every step keeps the invariant.
LEMMA LcStep == ASSUME LcInv, [Lc!Next]_Lc!vars PROVE LcInv'
  <1>1. ASSUME NEW p \in Lc!Units, NEW sound \in Lc!Sounds, Lc!Receive(p, sound) PROVE LcInv'
    BY <1>1, LcReceive
  <1>2. ASSUME NEW last \in Lc!Units, Lc!Stop(last) PROVE LcInv'
    BY <1>2, LcStop
  <1>3. CASE Lc!Feed \/ Lc!Fed \/ Lc!Interrupt \/ Lc!Delete \/ Lc!Schedule \/ Lc!Transcribed \/ Lc!Diarize \/ Lc!Diarized
    BY <1>3, LcFeed, LcFed, LcInterrupt, LcDelete, LcSchedule, LcTranscribes, LcDiarize, LcDiarized
  <1>4. CASE Lc!Finishing
    BY <1>4, LcFlushed, LcFlushedHeard, LcTasksEnded, LcDrain, LcTranscribes, LcDrainEnds, LcLastDiarize,
       LcLastDiarized, LcPublish, LcConclude, LcRelease DEF Lc!Finishing
  <1>5. CASE Lc!FinishFails
    BY <1>5, LcFinishFails
  <1>6. CASE UNCHANGED Lc!vars
    BY <1>6, LcUnchanged
  <1> QED
    BY <1>1, <1>2, <1>3, <1>4, <1>5, <1>6 DEF Lc!Next

\* The invariant implies what the runs check of a recording.
LEMMA LcHolds ==
  LcInv => Lc!TypeOK /\ Lc!PositionsHold /\ Lc!StableIsTranscribed /\ Lc!CompletedIsWhole /\ Lc!ReleasedIsQuiet
  <1> SUFFICES ASSUME LcInv
               PROVE  /\ Lc!TypeOK /\ Lc!PositionsHold /\ Lc!StableIsTranscribed
                      /\ Lc!CompletedIsWhole /\ Lc!ReleasedIsQuiet
    OBVIOUS
  <1> USE DEF LcInv
  <1>1. Lc!Size \in Nat /\ Len(held) \in Nat /\ Recording \in Nat /\ nextSample \in 0..Recording
    BY LcCounts, CaptureAssumption DEF LcType
  <1>2. Lc!TypeOK
    <2>1. Lc!Size <= Recording /\ Len(held) <= 1 /\ \A u \in 1..Lc!Size : audio[u] \in Lc!Sounds \cup {"gap"}
      BY <1>1 DEF LcType, LcHears, Lc!Sounds, Lc!Size
    <2>2. /\ heard <= Lc!Size /\ lastSpeech <= heard /\ processed <= Lc!Size /\ attempt <= Lc!Size
          /\ stable <= Lc!Size /\ asr.end <= Lc!Size /\ diar <= Lc!Size /\ diarUntil <= Lc!Size
      BY <1>1 DEF LcType
    <2> QED
      BY <2>1, <2>2 DEF LcType, Lc!TypeOK
  <1>3. Lc!PositionsHold
    BY DEF Lc!PositionsHold, LcPositions, LcTold
  <1>4. Lc!StableIsTranscribed
    <2>1. SUFFICES ASSUME finish \notin {"saving", "leaving", "ended"} PROVE LcWords(stable)
      BY DEF Lc!StableIsTranscribed, LcWords
    <2>2. CASE finish \in LcEarly
      <3>1. stable <= processed /\ LcWords(processed) /\ stable \in Nat /\ processed \in Nat
        BY <1>1, <2>2 DEF LcTranscribed, LcType
      <3> QED
        BY <3>1 DEF LcWords
    <2>3. CASE finish \in LcLast \ {"saving"}
      BY <2>3 DEF LcTranscribed
    <2> QED
      BY <2>1, <2>2, <2>3 DEF LcType, LcEarly, LcLast
  <1>5. Lc!ReleasedIsQuiet
    BY DEF Lc!ReleasedIsQuiet, LcFinish, LcType
  <1> QED
    BY <1>2, <1>3, <1>4, <1>5

\* A step rewrites no word that is stable.
LEMMA LcStableWords == ASSUME LcInv, [Lc!Next]_Lc!vars PROVE [\A u \in 1..stable : words'[u] = words[u]]_Lc!vars
  <1>1. CASE words' = words
    BY <1>1
  <1>2. ASSUME NEW wording, words' = Lc!Merged(wording) PROVE \A u \in 1..stable : words'[u] = words[u]
    <2>1. stable \in 0..Recording /\ Recording \in Nat
      <3>1. /\ Lc!Size \in Nat /\ Len(held) \in Nat /\ Recording \in Nat
            /\ Lc!Size + Len(held) = nextSample /\ nextSample \in 0..Recording /\ stable \in 0..Lc!Size
        BY LcCounts, CaptureAssumption DEF LcInv, LcType
      <3> QED
        BY <3>1
    <2>2. ASSUME NEW u \in 1..stable PROVE u \in Lc!Units /\ ~(u > stable)
      BY <2>1 DEF Lc!Units
    <2> QED
      BY <1>2, <2>2 DEF Lc!Merged
  <1>3. CASE Lc!Result
    BY <1>1, <1>2, <1>3 DEF Lc!Result
  <1> QED
    BY <1>1, <1>3
    DEF Lc!Next, Lc!Finishing, Lc!vars, Lc!progress, Lc!Receive, Lc!Stop, Lc!Feed, Lc!Fed, Lc!Interrupt, Lc!Delete,
        Lc!Schedule, Lc!Skip, Lc!Start, Lc!Transcribed, Lc!Diarize, Lc!Diarized, Lc!Flushed, Lc!FlushedHeard,
        Lc!TasksEnded, Lc!Drain, Lc!Drained, Lc!DrainEnds, Lc!LastDiarize, Lc!LastDiarized, Lc!Publish,
        Lc!Conclude, Lc!Release, Lc!FinishFails

-----------------------------------------------------------------------------
(* The audio in the whole specification                                    *)

\* A step of BackendServices is a step of each of these modules, or leaves it alone.
LEMMA AudioSteps == [Next]_all => [Up!Next]_Up!vars /\ [Lc!Next]_Lc!vars
  <1> SUFFICES ASSUME [Next]_all PROVE [Up!Next]_Up!vars /\ [Lc!Next]_Lc!vars
    OBVIOUS
  <1> USE DEF all, ul, lc, Rest, Up!vars, Lc!vars
  <1>1. [Up!Next]_Up!vars
    BY DEF Next, Uploading, Capturing, Managing
  <1>2. [Lc!Next]_Lc!vars
    BY DEF Next, Uploading, Capturing, Managing
  <1> QED
    BY <1>1, <1>2

\* Both components begin in their invariants.
LEMMA AudioInit == Init => UlInv /\ LcInv
  BY UlInit, LcInit DEF Init

\* Both invariants hold in every state of the service.
LEMMA AudioInvariant == Spec => [](UlInv /\ LcInv)
  <1>1. UlInv /\ LcInv /\ [Next]_all => (UlInv /\ LcInv)'
    BY AudioSteps, UlStep, LcStep
  <1> QED
    BY AudioInit, <1>1, PTL DEF Spec

\* Audio is neither lost, invented nor displaced on its way to the engines (AudioHolds), for every
\* number of blocks and readers, every length of recording, window, context, gap and wording.
THEOREM AudioIsSafe == Spec => []AudioHolds
  <1>1. UlInv /\ LcInv => AudioHolds
    BY UlHolds, LcHolds DEF AudioHolds
  <1> QED
    BY AudioInvariant, <1>1, PTL

\* Words a user has read as stable are not rewritten by a later window of the recording.
THEOREM StableWordsAreSafe == Spec => Lc!StableWordsStay
  <1>1. LcInv /\ [Next]_all => [\A u \in 1..stable : words'[u] = words[u]]_Lc!vars
    BY AudioSteps, LcStableWords
  <1> QED
    BY AudioInvariant, <1>1, PTL DEF Spec, Lc!StableWordsStay

-----------------------------------------------------------------------------
(* SpeechRuntime                                                           *)

SrWorkerSet == [id : Nat, of : Sr!Choices, asr : {"loading", "ready", "failed"}, vad : BOOLEAN]
SrJobSet == [action : {"install", "selection"}, choice : Sr!Choices,
             status : {"queued", "running", "failed", "completed"},
             pc : {"start", "venv", "pip", "check", "download", "loading"}]
SrType ==
    /\ up \in BOOLEAN /\ busy \in BOOLEAN /\ startup \in {"loading", "detector", "done", "failed"}
    /\ settings \in Sr!Choices /\ selection \in Sr!Choices \cup {None}
    /\ workers \in SrWorkerSet /\ candidate \in SrWorkerSet \cup {None} /\ job \in SrJobSet \cup {None}
    /\ packages \in [Engines -> {"none", "bare", "broken", "good"}]
    /\ marked \subseteq Engines /\ manifest \subseteq Sr!Choices
    /\ jobCount \in 0..MaxJobs /\ stops \in 0..MaxStops

\* An installation works on an environment that is not marked; a selection was installed, and
\* has stopped the transcriptions and found the start-up over.
SrJob ==
    /\ Sr!Running /\ job.action = "install" /\ job.pc \in {"venv", "pip", "check"} =>
        job.choice.engine \notin marked
    /\ Sr!Running => workers.id < jobCount
    /\ Sr!Running /\ job.action = "selection" =>
        /\ Sr!Installed(job.choice)
        /\ up => busy /\ active = None /\ startup \in {"done", "failed"}

\* The candidate belongs to the selection under way; workers have the number of their job, and
\* until the start-up is over they are those it started with.
SrWorkers ==
    /\ workers.id <= jobCount
    /\ up /\ candidate = None => ~(Sr!Running /\ job.action = "selection" /\ job.pc = "loading")
    /\ up /\ candidate # None =>
        /\ Sr!Running /\ job.action = "selection" /\ job.pc = "loading"
        /\ candidate.of = job.choice /\ candidate.id = jobCount
    /\ up /\ startup \in {"loading", "detector"} => workers.id = 0
    /\ up => pools = {workers.id} \cup IF candidate = None THEN {} ELSE {candidate.id}

SrInv == /\ SrType /\ SrJob /\ SrWorkers
         /\ Sr!MarkedIsUsable /\ Sr!SelectionHasLoaded /\ Sr!OneSelection /\ Sr!WorkersStay /\ Sr!DetectorIsKnown

\* None is no choice, no worker and no job.
LEMMA SrNone == None \notin Sr!Choices /\ None \notin SrWorkerSet /\ None \notin SrJobSet
  BY RuntimeAssumption DEF Sr!Choices, SrWorkerSet, SrJobSet

\* The bounds are numbers.
LEMMA SrNumbers == MaxJobs \in Nat /\ MaxStops \in Nat
  BY RuntimeAssumption

\* The default of the code is a choice.
LEMMA SrDefault == [engine |-> OwnEngine, model |-> SmallModel] \in Sr!Choices
  BY RuntimeAssumption DEF Sr!Choices

\* A pool that loads is a pool of the model.
LEMMA SrLoading ==
  ASSUME NEW id \in Nat, NEW choice \in Sr!Choices
  PROVE  /\ Sr!Loading(id, choice) \in SrWorkerSet /\ Sr!Loading(id, choice).id = id
         /\ Sr!Loading(id, choice).of = choice
  BY DEF Sr!Loading, SrWorkerSet

\* The manager starts in the invariant.
LEMMA SrInit == Sr!Init => SrInv
  <1> SUFFICES ASSUME Sr!Init PROVE SrInv
    OBVIOUS
  <1> USE DEF Sr!Init
  <1>1. SrType
    <2>1. workers \in SrWorkerSet /\ settings \in Sr!Choices
      BY SrDefault, SrLoading
    <2>2. manifest \subseteq Sr!Choices
      BY SrDefault
    <2>3. jobCount \in 0..MaxJobs /\ stops \in 0..MaxStops
      BY SrNumbers
    <2>4. packages \in [Engines -> {"none", "bare", "broken", "good"}]
      OBVIOUS
    <2> QED
      BY <2>1, <2>2, <2>3, <2>4 DEF SrType
  <1>2. SrJob /\ SrWorkers
    BY SrDefault, SrLoading DEF SrJob, SrWorkers, Sr!Running
  <1>3. Sr!MarkedIsUsable /\ Sr!SelectionHasLoaded /\ Sr!WorkersStay /\ Sr!DetectorIsKnown
    BY DEF Sr!MarkedIsUsable, Sr!SelectionHasLoaded, Sr!WorkersStay, Sr!DetectorIsKnown
  <1>4. Sr!OneSelection
    BY SrDefault, SrLoading DEF Sr!OneSelection, Sr!LoadSelection
  <1> QED
    BY <1>1, <1>2, <1>3, <1>4 DEF SrInv

\* The steps of the start-up and of transcriptions.
LEMMA SrOutside ==
  ASSUME SrInv, Sr!AsrLoaded \/ Sr!Prepared \/ Sr!DetectorLoaded \/ Sr!Claim \/ Sr!Release PROVE SrInv'
  <1> USE DEF SrInv
  <1>1. PICK w \in SrWorkerSet : workers' = w /\ w.id = workers.id /\ w.of = workers.of
                                 /\ (w.vad \/ ~workers.vad)
    <2>1. workers \in SrWorkerSet
      BY DEF SrType
    <2>2. CASE Sr!AsrLoaded
      <3>1. PICK outcome \in {"ready", "failed"} : workers' = [workers EXCEPT !.asr = outcome]
        BY <2>2 DEF Sr!AsrLoaded, Sr!Outcomes
      <3> QED
        BY <2>1, <3>1 DEF SrWorkerSet
    <2>3. CASE Sr!DetectorLoaded /\ workers' # workers
      <3>1. workers' = [workers EXCEPT !.vad = (workers.id = 0)] /\ startup = "detector" /\ up
        BY <2>3 DEF Sr!DetectorLoaded
      <3>2. (workers.id = 0) = TRUE
        BY <3>1 DEF SrWorkers
      <3>3. workers' = [workers EXCEPT !.vad = TRUE]
        BY <3>1, <3>2
      <3>4. workers' = [id |-> workers.id, of |-> workers.of, asr |-> workers.asr, vad |-> TRUE]
        BY <2>1, <3>3 DEF SrWorkerSet
      <3>5. workers' \in SrWorkerSet
        BY <2>1, <3>4 DEF SrWorkerSet
      <3>6. workers'.id = workers.id /\ workers'.of = workers.of /\ workers'.vad
        BY <3>4
      <3> QED
        BY <3>5, <3>6
    <2>4. CASE workers' = workers
      BY <2>1, <2>4
    <2> QED
      BY <2>2, <2>3, <2>4 DEF Sr!Prepared, Sr!Claim, Sr!Release, Sr!engines
  <1>2. UNCHANGED <<up, settings, candidate, pools, busy, job, packages, marked, manifest, selection, jobCount, stops>>
    BY DEF Sr!AsrLoaded, Sr!Prepared, Sr!DetectorLoaded, Sr!Claim, Sr!Release, Sr!engines, Sr!disk
  <1>3. /\ startup' \in {"loading", "detector", "done", "failed"}
        /\ startup' \in {"loading", "detector"} => startup \in {"loading", "detector"}
        /\ startup \in {"done", "failed"} => startup' = startup
    BY DEF Sr!AsrLoaded, Sr!Prepared, Sr!DetectorLoaded, Sr!Claim, Sr!Release, SrType
  <1>4. /\ active' = active \/ active' = None \/ active' = workers.id
        /\ up /\ busy /\ startup \in {"done", "failed"} /\ active = None => active' = None
    BY DEF Sr!AsrLoaded, Sr!Prepared, Sr!DetectorLoaded, Sr!Claim, Sr!Release
  <1>5. SrType'
    BY <1>1, <1>2, <1>3 DEF SrType
  <1>6. Sr!Running' = Sr!Running
    BY <1>2 DEF Sr!Running
  <1>7. SrJob'
    BY <1>1, <1>2, <1>3, <1>4, <1>6 DEF SrJob, Sr!Installed
  <1>8. SrWorkers'
    BY <1>1, <1>2, <1>3, <1>6 DEF SrWorkers
  <1>9. Sr!MarkedIsUsable' /\ Sr!SelectionHasLoaded' /\ Sr!OneSelection'
    BY <1>1, <1>2 DEF Sr!MarkedIsUsable, Sr!SelectionHasLoaded, Sr!OneSelection, Sr!LoadSelection, Sr!Installed
  <1>10. Sr!WorkersStay'
    BY <1>1, <1>4 DEF Sr!WorkersStay
  <1>11. Sr!DetectorIsKnown'
    <2>1. CASE startup = "done"
      BY <1>1, <1>2, <2>1 DEF Sr!DetectorIsKnown
    <2>2. CASE startup # "done" /\ startup' = "done"
      <3>1. startup = "detector" /\ up /\ workers.id = 0
        BY <2>2 DEF Sr!AsrLoaded, Sr!Prepared, Sr!DetectorLoaded, Sr!Claim, Sr!Release, SrWorkers
      <3>2. workers' = [workers EXCEPT !.vad = (workers.id = 0)] /\ workers \in SrWorkerSet
        BY <2>2, <3>1 DEF Sr!AsrLoaded, Sr!Prepared, Sr!DetectorLoaded, Sr!Claim, Sr!Release, SrType
      <3>3. (workers.id = 0) = TRUE
        BY <3>1
      <3> QED
        BY <3>2, <3>3 DEF Sr!DetectorIsKnown, SrWorkerSet
    <2> QED
      BY <2>1, <2>2 DEF Sr!DetectorIsKnown
  <1> QED
    BY <1>5, <1>7, <1>8, <1>9, <1>10, <1>11

\* Submitting a job keeps the invariant: only one runs at a time.
LEMMA SrSubmit ==
  ASSUME SrInv, NEW action \in {"install", "selection"}, NEW choice \in Sr!Choices, Sr!Submit(action, choice)
  PROVE  SrInv'
  <1> USE DEF SrInv
  <1> DEFINE new == [action |-> action, choice |-> choice, status |-> "queued", pc |-> "start"]
  <1>1. /\ up /\ ~Sr!Running /\ jobCount < MaxJobs /\ jobCount' = jobCount + 1 /\ job' = new
        /\ action = "selection" =>
              startup \in {"done", "failed"} /\ active = None /\ Sr!Installed(choice) /\ busy' = TRUE
        /\ busy' \in BOOLEAN
        /\ UNCHANGED <<up, startup, settings, workers, candidate, pools, packages, marked, manifest, selection,
                       active, stops>>
    BY DEF Sr!Submit, Sr!Started, Sr!Claimed, Sr!disk, SrType
  <1>2. new \in SrJobSet /\ new.action = action /\ new.choice = choice /\ new.status = "queued" /\ new.pc = "start"
    BY DEF SrJobSet
  <1> HIDE DEF new
  <1>3. SrType'
    BY <1>1, <1>2, SrNumbers DEF SrType
  <1>4. Sr!Installed(choice)' = Sr!Installed(choice) /\ candidate = None
    BY <1>1 DEF Sr!Installed, SrWorkers
  <1>5. workers.id \in Nat /\ jobCount \in Nat /\ workers.id <= jobCount
    BY DEF SrWorkers, SrType, SrWorkerSet
  <1>6. SrJob'
    <2>1. workers'.id < jobCount'
      BY <1>1, <1>5
    <2> QED
      BY <1>1, <1>2, <1>4, <2>1 DEF SrJob
  <1>7. SrWorkers'
    BY <1>1, <1>2, <1>4, <1>5 DEF SrWorkers
  <1>8. Sr!MarkedIsUsable' /\ Sr!SelectionHasLoaded' /\ Sr!OneSelection' /\ Sr!WorkersStay' /\ Sr!DetectorIsKnown'
    BY <1>1 DEF Sr!MarkedIsUsable, Sr!SelectionHasLoaded, Sr!OneSelection, Sr!LoadSelection, Sr!Installed,
         Sr!WorkersStay, Sr!DetectorIsKnown
  <1> QED
    BY <1>3, <1>6, <1>7, <1>8

\* What a step of a job leaves of the job.
SrMoves(status) ==
    /\ job' \in SrJobSet /\ job'.action = job.action /\ job'.choice = job.choice /\ job'.status = status

\* Going on to the next stage moves the job and nothing else.
LEMMA SrGoto ==
  ASSUME SrType, Sr!Running, NEW pc \in {"start", "venv", "pip", "check", "download", "loading"}, Sr!Goto(pc)
  PROVE  SrMoves("running") /\ job'.pc = pc /\ busy' = busy
  <1>1. job \in SrJobSet
    BY DEF SrType, Sr!Running
  <1>2. job' = [action |-> job.action, choice |-> job.choice, status |-> "running", pc |-> pc]
    BY <1>1 DEF Sr!Goto, SrJobSet
  <1> QED
    BY <1>1, <1>2 DEF SrMoves, SrJobSet, Sr!Goto

\* Ending a job sets its status and lets the next one in.
LEMMA SrEnded ==
  ASSUME SrType, Sr!Running, NEW status \in {"failed", "completed"}, Sr!Ended(status)
  PROVE  SrMoves(status) /\ ~Sr!Running' /\ busy' = FALSE
  <1>1. job \in SrJobSet
    BY DEF SrType, Sr!Running
  <1>2. job' = [action |-> job.action, choice |-> job.choice, status |-> status, pc |-> job.pc]
    BY <1>1 DEF Sr!Ended, SrJobSet
  <1> QED
    BY <1>1, <1>2 DEF SrMoves, SrJobSet, Sr!Ended, Sr!Running

\* The steps of an installation.
LEMMA SrInstall ==
  ASSUME SrInv, Sr!Install \/ Sr!Venv \/ Sr!Pip \/ Sr!Check \/ Sr!Download PROVE SrInv'
  <1> USE DEF SrInv
  <1>1. /\ up /\ Sr!Running /\ job.action = "install" /\ job \in SrJobSet
        /\ UNCHANGED <<up, startup, settings, workers, candidate, pools, selection, active, jobCount, stops>>
    BY DEF Sr!Install, Sr!Venv, Sr!Pip, Sr!Check, Sr!Download, Sr!Doing, Sr!InstallStep, SrType, Sr!Running
  <1> DEFINE e == job.choice.engine
  <1>2. e \in Engines /\ job.choice \in Sr!Choices
    BY <1>1 DEF SrJobSet, Sr!Choices
  <1>3. /\ SrMoves("running") \/ ((SrMoves("failed") \/ SrMoves("completed")) /\ ~Sr!Running')
        /\ busy' \in {busy, FALSE}
        /\ Sr!Running' /\ job'.pc \in {"venv", "pip", "check"} => e \notin marked'
    <2>1. CASE Sr!Install
      BY <1>1, <2>1, SrGoto, SrEnded DEF Sr!Install, Sr!Doing
    <2>2. CASE Sr!Venv
      BY <1>1, <2>2, SrGoto, SrEnded DEF Sr!Venv, Sr!Doing, SrJob
    <2>3. CASE Sr!Pip
      BY <1>1, <2>3, SrGoto, SrEnded DEF Sr!Pip, Sr!Doing, SrJob
    <2>4. CASE Sr!Check
      BY <1>1, <2>4, SrGoto, SrEnded DEF Sr!Check, Sr!Doing, SrJob
    <2>5. CASE Sr!Download
      BY <1>1, <2>5, SrGoto, SrEnded DEF Sr!Download, Sr!Doing, SrJob
    <2> QED
      BY <2>1, <2>2, <2>3, <2>4, <2>5
  <1>4. /\ packages' \in [Engines -> {"none", "bare", "broken", "good"}]
        /\ marked \subseteq marked' /\ marked' \subseteq Engines
        /\ manifest \subseteq manifest' /\ manifest' \subseteq Sr!Choices
        /\ \A x \in marked' : packages'[x] = "good"
    <2>1. /\ packages \in [Engines -> {"none", "bare", "broken", "good"}] /\ marked \subseteq Engines
          /\ manifest \subseteq Sr!Choices /\ \A x \in marked : packages[x] = "good"
      BY DEF SrType, Sr!MarkedIsUsable
    <2>2. CASE Sr!Install
      BY <2>1, <2>2 DEF Sr!Install
    <2>3. CASE Sr!Venv
      <3>1. e \notin marked /\ UNCHANGED <<marked, manifest>>
        BY <2>3, <1>1 DEF Sr!Venv, Sr!Doing, SrJob
      <3>2. \/ packages' = [packages EXCEPT ![e] = IF packages[e] = "none" THEN "bare" ELSE packages[e]]
            \/ packages' = packages \/ packages' = [packages EXCEPT ![e] = "bare"]
        BY <1>2, <2>1, <2>3 DEF Sr!Venv
      <3> QED
        BY <1>2, <2>1, <3>1, <3>2
    <2>4. CASE Sr!Pip
      <3>1. e \notin marked /\ UNCHANGED <<marked, manifest>>
        BY <2>4, <1>1 DEF Sr!Pip, Sr!Doing, SrJob
      <3>2. PICK found \in {"broken", "good"} : packages' = [packages EXCEPT ![e] = found]
        BY <2>4 DEF Sr!Pip
      <3> QED
        BY <1>2, <2>1, <3>1, <3>2
    <2>5. CASE Sr!Check
      BY <1>2, <2>1, <2>5 DEF Sr!Check, Sr!Imports
    <2>6. CASE Sr!Download
      BY <1>2, <2>1, <2>6 DEF Sr!Download
    <2> QED
      BY <2>2, <2>3, <2>4, <2>5, <2>6
  <1>5. /\ job' \in SrJobSet /\ job'.action = "install"
    BY <1>1, <1>3 DEF SrMoves
  <1>6. SrType'
    BY <1>1, <1>3, <1>4, <1>5 DEF SrType
  <1>7. SrJob'
    BY <1>1, <1>3, <1>5 DEF SrJob, SrMoves
  <1>8. candidate = None
    BY <1>1 DEF SrWorkers
  <1>9. SrWorkers'
    BY <1>1, <1>5, <1>8 DEF SrWorkers
  <1>10. Sr!MarkedIsUsable' /\ Sr!OneSelection' /\ Sr!WorkersStay' /\ Sr!DetectorIsKnown'
    BY <1>1, <1>4 DEF Sr!MarkedIsUsable, Sr!OneSelection, Sr!LoadSelection, Sr!WorkersStay, Sr!DetectorIsKnown
  <1>11. Sr!SelectionHasLoaded'
    BY <1>1, <1>4 DEF Sr!SelectionHasLoaded, Sr!Installed
  <1> QED
    BY <1>6, <1>7, <1>9, <1>10, <1>11

\* Starting a selection keeps the invariant: the candidate loads beside the workers in use.
LEMMA SrSelect == ASSUME SrInv, Sr!Select PROVE SrInv'
  <1> USE DEF SrInv
  <1>1. /\ up /\ Sr!Running /\ job.action = "selection" /\ job.pc = "start" /\ job \in SrJobSet
        /\ UNCHANGED <<up, startup, settings, workers, packages, marked, manifest, selection, active,
                       jobCount, stops>>
        /\ candidate' = Sr!Loading(jobCount, job.choice) /\ pools' = pools \cup {jobCount}
    BY DEF Sr!Select, Sr!Doing, Sr!disk, SrType, Sr!Running
  <1>2. SrMoves("running") /\ job'.pc = "loading" /\ busy' = busy
    BY <1>1, SrGoto DEF Sr!Select
  <1>3. jobCount \in Nat /\ job.choice \in Sr!Choices
    BY <1>1, SrNumbers DEF SrType, SrJobSet
  <1>4. candidate' \in SrWorkerSet /\ candidate'.id = jobCount /\ candidate'.of = job.choice /\ candidate' # None
    BY <1>1, <1>3, SrLoading, SrNone
  <1>5. SrType'
    BY <1>1, <1>2, <1>4 DEF SrType, SrMoves
  <1>6. Sr!Running' /\ job'.action = "selection" /\ job'.choice = job.choice
    BY <1>1, <1>2, SrNone DEF Sr!Running, SrMoves
  <1>7. SrJob'
    BY <1>1, <1>2, <1>6 DEF SrJob, Sr!Installed
  <1>8. candidate = None
    BY <1>1 DEF SrWorkers
  <1>9. SrWorkers'
    BY <1>1, <1>2, <1>4, <1>6, <1>8 DEF SrWorkers
  <1>10. Sr!MarkedIsUsable' /\ Sr!SelectionHasLoaded' /\ Sr!OneSelection' /\ Sr!WorkersStay' /\ Sr!DetectorIsKnown'
    BY <1>1 DEF Sr!MarkedIsUsable, Sr!SelectionHasLoaded, Sr!OneSelection, Sr!LoadSelection, Sr!Installed,
         Sr!WorkersStay, Sr!DetectorIsKnown
  <1> QED
    BY <1>5, <1>7, <1>9, <1>10

\* The swap finds no transcription and a start-up that is over.
LEMMA SrSelected == ASSUME SrInv, Sr!Selected PROVE SrInv'
  <1> USE DEF SrInv
  <1>1. /\ up /\ Sr!Running /\ job.action = "selection" /\ job.pc = "loading" /\ job \in SrJobSet
        /\ UNCHANGED <<up, startup, packages, marked, manifest, active, jobCount, stops>>
        /\ candidate' = None
    BY DEF Sr!Selected, Sr!Doing, SrType, Sr!Running
  <1>2. /\ candidate \in SrWorkerSet /\ candidate.of = job.choice /\ candidate.id = jobCount
        /\ workers \in SrWorkerSet /\ workers.id < jobCount /\ pools = {workers.id, candidate.id}
        /\ workers.id \in Nat /\ jobCount \in Nat
        /\ Sr!Installed(job.choice) /\ active = None /\ startup \in {"done", "failed"}
    BY <1>1, SrNumbers DEF SrType, SrJob, SrWorkers, SrWorkerSet
  <1>3. CASE /\ selection' = job.choice /\ settings' = job.choice /\ pools' = pools \ {workers.id}
             /\ \E outcome \in Sr!Outcomes(job.choice) :
                   outcome = "ready" /\ workers' = [candidate EXCEPT !.asr = outcome, !.vad = workers.vad]
             /\ Sr!Ended("completed")
    <2>1. job.choice \in [engine : Engines, model : {SmallModel}] /\ job.choice \in Sr!Choices /\ job.choice # None
      BY <1>1, <1>3, SrNone DEF Sr!Outcomes, SrJobSet
    <2>2. SrMoves("completed") /\ ~Sr!Running' /\ busy' = FALSE
      BY <1>1, <1>3, SrEnded
    <2>3. workers' = [id |-> candidate.id, of |-> candidate.of, asr |-> "ready", vad |-> workers.vad]
      BY <1>2, <1>3 DEF SrWorkerSet
    <2>4. /\ workers' \in SrWorkerSet /\ workers'.id = jobCount /\ workers'.of = job.choice
          /\ workers'.vad = workers.vad
      BY <1>2, <2>3 DEF SrWorkerSet
    <2>5. SrType'
      BY <1>1, <1>3, <2>1, <2>2, <2>4 DEF SrType, SrMoves
    <2>6. SrJob'
      BY <2>2 DEF SrJob
    <2>7. SrWorkers'
      BY <1>1, <1>2, <1>3, <2>2, <2>4 DEF SrWorkers
    <2>8. Sr!MarkedIsUsable' /\ Sr!WorkersStay' /\ Sr!DetectorIsKnown'
      BY <1>1, <1>2, <2>4 DEF Sr!MarkedIsUsable, Sr!WorkersStay, Sr!DetectorIsKnown
    <2>9. Sr!SelectionHasLoaded' /\ Sr!OneSelection'
      BY <1>1, <1>2, <1>3, <2>1, <2>4 DEF Sr!SelectionHasLoaded, Sr!OneSelection, Sr!LoadSelection, Sr!Installed
    <2> QED
      BY <2>5, <2>6, <2>7, <2>8, <2>9
  <1>4. CASE pools' = pools \ {candidate.id} /\ UNCHANGED <<selection, workers, settings>> /\ Sr!Ended("failed")
    <2>1. SrMoves("failed") /\ ~Sr!Running' /\ busy' = FALSE
      BY <1>1, <1>4, SrEnded
    <2>2. SrType'
      BY <1>1, <1>4, <2>1 DEF SrType, SrMoves
    <2>3. SrJob'
      BY <2>1 DEF SrJob
    <2>4. SrWorkers'
      BY <1>1, <1>2, <1>4, <2>1 DEF SrWorkers
    <2>5. Sr!MarkedIsUsable' /\ Sr!WorkersStay' /\ Sr!DetectorIsKnown' /\ Sr!SelectionHasLoaded' /\ Sr!OneSelection'
      BY <1>1, <1>4 DEF Sr!MarkedIsUsable, Sr!WorkersStay, Sr!DetectorIsKnown, Sr!SelectionHasLoaded,
           Sr!OneSelection, Sr!LoadSelection, Sr!Installed
    <2> QED
      BY <2>2, <2>3, <2>4, <2>5
  <1> QED
    BY <1>3, <1>4 DEF Sr!Selected, Sr!Loaded, Sr!WriteSelection, Sr!CloseCandidate

\* A job whose application is gone, or that was cancelled, is at its old step.
LEMMA SrFailedJob ==
  ASSUME SrType, Sr!Running
  PROVE  [job EXCEPT !.status = "failed"] \in SrJobSet /\ [job EXCEPT !.status = "failed"].status = "failed"
  BY DEF SrType, Sr!Running, SrJobSet

\* A shutdown and a crash keep the invariant.
LEMMA SrStops == ASSUME SrInv, Sr!Down \/ Sr!Crash PROVE SrInv'
  <1> USE DEF SrInv
  <1>1. /\ up' = FALSE /\ stops' = stops + 1 /\ stops < MaxStops
        /\ UNCHANGED <<startup, settings, workers, packages, marked, manifest, selection, active, jobCount>>
        /\ busy' \in BOOLEAN /\ candidate' \in SrWorkerSet \cup {None}
    BY DEF Sr!Down, Sr!Crash, Sr!engines, Sr!disk, SrType
  <1>2. /\ job' = job \/ (Sr!Running /\ job' = [job EXCEPT !.status = "failed"])
    BY DEF Sr!Down, Sr!Crash
  <1>3. job' \in SrJobSet \cup {None} /\ (job' = job \/ ~Sr!Running')
    BY <1>2, SrFailedJob DEF SrType, Sr!Running
  <1>4. SrType'
    <2>1. stops' \in 0..MaxStops
      BY <1>1, SrNumbers DEF SrType
    <2> QED
      BY <1>1, <1>3, <2>1 DEF SrType
  <1>5. SrJob'
    BY <1>1, <1>3 DEF SrJob, Sr!Running, Sr!Installed
  <1>6. SrWorkers'
    BY <1>1 DEF SrWorkers
  <1>7. Sr!MarkedIsUsable' /\ Sr!WorkersStay' /\ Sr!DetectorIsKnown' /\ Sr!SelectionHasLoaded' /\ Sr!OneSelection'
    BY <1>1 DEF Sr!MarkedIsUsable, Sr!WorkersStay, Sr!DetectorIsKnown, Sr!SelectionHasLoaded,
         Sr!OneSelection, Sr!Installed
  <1> QED
    BY <1>4, <1>5, <1>6, <1>7

\* A restart keeps the invariant.
LEMMA SrRestart == ASSUME SrInv, Sr!Restart PROVE SrInv'
  <1> USE DEF SrInv
  <1>1. /\ up' = TRUE /\ startup' = "loading" /\ settings' = Sr!LoadSelection
        /\ workers' = Sr!Loading(0, Sr!LoadSelection)
        /\ candidate' = None /\ pools' = {0} /\ busy' = FALSE /\ active' = None
        /\ UNCHANGED <<packages, marked, manifest, selection, jobCount, stops>>
    BY DEF Sr!Restart, Sr!disk
  <1>2. Sr!LoadSelection \in Sr!Choices
    BY SrDefault DEF Sr!LoadSelection, SrType
  <1>3. workers' \in SrWorkerSet /\ workers'.id = 0 /\ workers'.of = Sr!LoadSelection
    BY <1>1, <1>2, SrLoading
  <1>4. job' \in SrJobSet \cup {None} /\ ~Sr!Running'
    BY SrFailedJob DEF Sr!Restart, SrType, Sr!Running
  <1>5. SrType'
    BY <1>1, <1>2, <1>3, <1>4 DEF SrType
  <1>6. SrJob'
    BY <1>4 DEF SrJob
  <1>7. SrWorkers'
    BY <1>1, <1>3, <1>4, SrNumbers DEF SrWorkers, SrType
  <1>8. Sr!MarkedIsUsable' /\ Sr!WorkersStay' /\ Sr!DetectorIsKnown' /\ Sr!SelectionHasLoaded'
    BY <1>1 DEF Sr!MarkedIsUsable, Sr!WorkersStay, Sr!DetectorIsKnown, Sr!SelectionHasLoaded, Sr!Installed
  <1>9. Sr!OneSelection'
    BY <1>1, <1>3 DEF Sr!OneSelection, Sr!LoadSelection
  <1> QED
    BY <1>5, <1>6, <1>7, <1>8, <1>9

\* The invariant is inductive.
LEMMA SrStep == SrInv /\ [Sr!Next]_Sr!srVars => SrInv'
  <1> SUFFICES ASSUME SrInv, [Sr!Next]_Sr!srVars PROVE SrInv'
    OBVIOUS
  <1>1. CASE Sr!AsrLoaded \/ Sr!Prepared \/ Sr!DetectorLoaded \/ Sr!Claim \/ Sr!Release
    BY <1>1, SrOutside
  <1>2. ASSUME NEW action \in {"install", "selection"}, NEW choice \in Sr!Choices, Sr!Submit(action, choice)
        PROVE  SrInv'
    BY <1>2, SrSubmit
  <1>3. CASE Sr!Job
    BY <1>3, SrInstall, SrSelect, SrSelected DEF Sr!Job
  <1>4. CASE Sr!Down \/ Sr!Crash \/ Sr!Restart
    BY <1>4, SrStops, SrRestart
  <1>5. CASE UNCHANGED Sr!srVars
    BY <1>5 DEF Sr!srVars, SrInv, SrType, SrJob, SrWorkers, Sr!MarkedIsUsable, Sr!WorkersStay, Sr!DetectorIsKnown,
         Sr!SelectionHasLoaded, Sr!OneSelection, Sr!LoadSelection, Sr!Installed, Sr!Running
  <1> QED
    BY <1>1, <1>2, <1>3, <1>4, <1>5 DEF Sr!Next

\* The invariant implies what the runs check of the manager.
LEMMA SrHolds ==
  SrInv => /\ Sr!TypeOK /\ Sr!MarkedIsUsable /\ Sr!SelectionHasLoaded /\ Sr!OneSelection
           /\ Sr!NoPoolIsLeft /\ Sr!WorkersStay /\ Sr!DetectorIsKnown
  <1> SUFFICES ASSUME SrInv PROVE Sr!TypeOK /\ Sr!NoPoolIsLeft
    BY DEF SrInv
  <1>1. Sr!TypeOK
    <2>1. \A w \in {workers, candidate} \ {None} : w \in SrWorkerSet
      BY DEF SrInv, SrType
    <2>2. \A w \in {workers, candidate} \ {None} :
             w.of \in Sr!Choices /\ w.asr \in {"loading", "ready", "failed"} /\ w.vad \in BOOLEAN
      BY <2>1 DEF SrWorkerSet
    <2> QED
      BY <2>2, SrNumbers DEF SrInv, SrType, Sr!TypeOK
  <1>2. Sr!NoPoolIsLeft
    <2>1. workers # None
      BY SrNone DEF SrInv, SrType
    <2> QED
      BY <2>1 DEF SrInv, SrWorkers, Sr!NoPoolIsLeft
  <1> QED
    BY <1>1, <1>2


-----------------------------------------------------------------------------
(* SpeakerMapping                                                          *)

\* The largest number of a bounded set, in this instance.
LEMMA SmMax ==
  ASSUME NEW n \in Nat, NEW T, T \subseteq 0..n, T # {}
  PROVE  Sm!Max(T) \in T /\ \A y \in T : Sm!Max(T) >= y
  <1>1. \E x \in T : \A y \in T : x >= y
    BY LcMax
  <1> QED
    BY <1>1 DEF Sm!Max

SmApart(s, t) == s.to <= t.from \/ t.to <= s.from
SmInv == /\ \A t \in previous : t.from \in Nat /\ t.to \in Nat
         /\ Sm!EvidenceIsExclusive

\* Where a span of exclusive speech ends, and that no other span starts before.
LEMMA SmSpan ==
  ASSUME NEW voices, NEW u \in 1..Talk
  PROVE  \E until \in u..Talk :
           /\ until = Sm!Max({v \in u..Talk : \A w \in u..v : voices[w] = voices[u]})
           /\ \A w \in u..until : voices[w] = voices[u]
  <1> DEFINE T == {v \in u..Talk : \A w \in u..v : voices[w] = voices[u]}
  <1>1. Talk \in Nat /\ u \in Nat
    BY TalkAssumption
  <1>2. u \in T
    BY <1>1
  <1>3. T \subseteq 0..Talk
    BY <1>1
  <1>4. Sm!Max(T) \in T
    BY <1>1, <1>2, <1>3, SmMax
  <1> QED
    BY <1>4

\* The spans of one analysis are apart.
LEMMA SmExclusive ==
  ASSUME NEW voices
  PROVE  /\ \A t \in Sm!Exclusive(voices) : t.from \in Nat /\ t.to \in Nat
         /\ \A s, t \in Sm!Exclusive(voices) : s # t => SmApart(s, t)
  <1> DEFINE Until(u) == Sm!Max({v \in u..Talk : \A w \in u..v : voices[w] = voices[u]})
  <1> DEFINE Span(u) == [from |-> u - 1, to |-> Until(u), speaker |-> CHOOSE s \in voices[u] : TRUE]
  <1> DEFINE Starts == {u \in 1..Talk : Sm!Cardinality(voices[u]) = 1 /\ (u > 1 => voices[u - 1] # voices[u])}
  <1>1. Sm!Exclusive(voices) = {Span(u) : u \in Starts}
    BY DEF Sm!Exclusive
  <1>2. Talk \in Nat
    BY TalkAssumption
  <1>3. \A u \in Starts : u \in 1..Talk /\ (u > 1 => voices[u - 1] # voices[u])
    OBVIOUS
  <1>4. \A u \in Starts : Until(u) \in u..Talk /\ \A w \in u..Until(u) : voices[w] = voices[u]
    BY <1>3, SmSpan
  <1>5. \A u \in Starts : Span(u).from = u - 1 /\ Span(u).to = Until(u)
    OBVIOUS
  <1> HIDE DEF Starts, Until, Span
  <1>6. \A u \in Starts : Span(u).from \in Nat /\ Span(u).to \in Nat
    BY <1>2, <1>3, <1>4, <1>5
  <1>7. \A u, v \in Starts : u < v => Until(u) <= v - 1
    <2>1. SUFFICES ASSUME NEW u \in Starts, NEW v \in Starts, u < v, ~(Until(u) <= v - 1) PROVE FALSE
      OBVIOUS
    <2>2. u \in 1..Talk /\ v \in 1..Talk /\ Until(u) \in u..Talk
      BY <1>3, <1>4
    <2>3. v \in u..Until(u) /\ v - 1 \in u..Until(u) /\ v > 1
      BY <1>2, <2>1, <2>2
    <2>4. voices[v] = voices[u] /\ voices[v - 1] = voices[u]
      BY <1>4, <2>3
    <2> QED
      BY <1>3, <2>3, <2>4
  <1>8. \A u, v \in Starts : Span(u) # Span(v) => SmApart(Span(u), Span(v))
    <2>1. SUFFICES ASSUME NEW u \in Starts, NEW v \in Starts, Span(u) # Span(v)
                   PROVE  SmApart(Span(u), Span(v))
      OBVIOUS
    <2>2. u \in Nat /\ v \in Nat /\ u # v
      BY <1>2, <1>3, <2>1
    <2>3. u < v \/ v < u
      BY <2>2
    <2> QED
      BY <1>5, <1>7, <2>3 DEF SmApart
  <1> QED
    BY <1>1, <1>6, <1>8

\* What an analysis leaves of the evidence gives way to what it adds.
LEMMA SmStep == ASSUME SmInv, [Sm!Next]_Sm!smVars PROVE SmInv'
  <1>1. CASE previous' = previous
    BY <1>1 DEF SmInv, Sm!EvidenceIsExclusive
  <1>2. CASE previous' # previous
    <2> DEFINE covered == Sm!Exclusive(turns')
    <2>1. previous' = covered \cup Sm!Kept(covered)
      BY <1>2 DEF Sm!Next, Sm!Analyse, Sm!Map, Sm!smVars
    <2>2. /\ \A t \in covered : t.from \in Nat /\ t.to \in Nat
          /\ \A s, t \in covered : s # t => SmApart(s, t)
      BY SmExclusive
    <2> HIDE DEF covered
    <2>3. \A t \in Sm!Kept(covered) : t \in previous /\ \A c \in covered : ~(c.from < t.to /\ c.to > t.from)
      BY DEF Sm!Kept
    <2>4. \A t \in previous : t.from \in Nat /\ t.to \in Nat
      BY DEF SmInv
    <2>5. \A s, t \in previous : s # t => SmApart(s, t)
      BY DEF SmInv, Sm!EvidenceIsExclusive, SmApart
    <2>6. \A t \in previous' : t.from \in Nat /\ t.to \in Nat
      BY <2>1, <2>2, <2>3, <2>4
    <2>7. \A c \in covered, t \in Sm!Kept(covered) : SmApart(c, t) /\ SmApart(t, c)
      BY <2>2, <2>3, <2>4 DEF SmApart
    <2>8. \A s, t \in previous' : s # t => SmApart(s, t)
      <3> HIDE DEF SmInv
      <3>1. \A s, t \in Sm!Kept(covered) : s # t => SmApart(s, t)
        BY <2>3, <2>5
      <3> QED
        BY <2>1, <2>2, <2>7, <3>1
    <2> QED
      BY <2>6, <2>8 DEF SmInv, Sm!EvidenceIsExclusive, SmApart
  <1> QED
    BY <1>1, <1>2

-----------------------------------------------------------------------------
(* Folds over finite sets and sequences                                    *)

\* What holds of the first number and passes on to the next one holds up to the last.
LEMMA Counting ==
  ASSUME NEW n \in Nat, NEW T, 0 \in T, \A k \in 0..n : k < n /\ k \in T => k + 1 \in T
  PROVE  \A k \in 0..n : k \in T
  <1> DEFINE out == {k \in 0..n : k \notin T}
  <1>1. SUFFICES ASSUME out # {} PROVE FALSE
    OBVIOUS
  <1>2. out \subseteq Nat
    OBVIOUS
  <1> HIDE DEF out
  <1>2a. PICK k \in out : \A m \in out : k <= m
    BY <1>1, <1>2, LeastNumber
  <1> USE DEF out
  <1>3. k # 0 /\ k \in 0..n
    BY <1>2a
  <1>4. k - 1 \in 0..n /\ k - 1 < n /\ ~(k <= k - 1)
    BY <1>3
  <1>5. k - 1 \in T
    BY <1>2a, <1>4
  <1>6. (k - 1) + 1 = k
    BY <1>3
  <1> QED
    BY <1>2a, <1>4, <1>5, <1>6

\* pick chooses an element of every part of S; g folds step over the parts of S in that order.
Picks(pick, S) == \A s \in SUBSET S : s # {} => pick[s] \in s
FoldsBy(g, S, base, pick, step) == \A s \in SUBSET S :
    g[s] = IF s = {} THEN base ELSE step[pick[s]][g[s \ {pick[s]}]]
SameSteps(f, g, S, pick) ==
    /\ f[{}] = g[{}]
    /\ \A s \in SUBSET S : s # {} /\ f[s \ {pick[s]}] = g[s \ {pick[s]}] => f[s] = g[s]

\* A fold over a finite set has a value for every part of it.
LEMMA FoldExists ==
  ASSUME NEW S, IsFiniteSet(S), NEW R, NEW base \in R,
         NEW pick, Picks(pick, S), NEW step \in [S -> [R -> R]]
  PROVE  \E g \in [SUBSET S -> R] : FoldsBy(g, S, base, pick, step)
  <1> USE DEF Picks, FoldsBy
  <1> DEFINE Within(m) == {s \in SUBSET S : Cardinality(s) <= m}
             Folds(g, m) == \A s \in Within(m) :
                                g[s] = IF s = {} THEN base ELSE step[pick[s]][g[s \ {pick[s]}]]
             done == {m \in Nat : \E g \in [Within(m) -> R] : Folds(g, m)}
  <1>1. \A s \in SUBSET S : /\ IsFiniteSet(s) /\ Cardinality(s) \in Nat /\ Cardinality(s) <= Cardinality(S)
                            /\ (Cardinality(s) = 0 <=> s = {})
    BY FS_Subset, FS_CardinalityType, FS_EmptySet
  <1>2. \A s \in SUBSET S : s # {} =>
            /\ s \ {pick[s]} \in SUBSET S /\ pick[s] \in S
            /\ Cardinality(s \ {pick[s]}) = Cardinality(s) - 1
    BY <1>1, FS_RemoveElement
  <1>3. 0 \in done
    <2>1. \A s \in Within(0) : s = {}
      BY <1>1
    <2> DEFINE h == [s \in Within(0) |-> base]
    <2>2. h \in [Within(0) -> R] /\ Folds(h, 0)
      BY <2>1
    <2> HIDE DEF h, Folds, Within
    <2> QED
      BY <2>2
  <1>4. ASSUME NEW m \in Nat, m \in done PROVE m + 1 \in done
    <2>1. PICK g \in [Within(m) -> R] : Folds(g, m)
      BY <1>4
    <2> DEFINE h == [s \in Within(m + 1) |-> IF s \in Within(m) THEN g[s] ELSE step[pick[s]][g[s \ {pick[s]}]]]
    <2>2. ASSUME NEW s \in Within(m + 1), s # {}
          PROVE  /\ s \ {pick[s]} \in Within(m) /\ s \ {pick[s]} \in Within(m + 1) /\ pick[s] \in S
                 /\ h[s \ {pick[s]}] = g[s \ {pick[s]}]
      <3>1. Cardinality(s) \in Nat /\ Cardinality(s) <= m + 1 /\ s \in SUBSET S
        BY <1>1
      <3>2. Cardinality(s \ {pick[s]}) = Cardinality(s) - 1 /\ s \ {pick[s]} \in SUBSET S /\ pick[s] \in S
        BY <1>2, <2>2, <3>1
      <3>3. s \ {pick[s]} \in Within(m) /\ s \ {pick[s]} \in Within(m + 1)
        BY <3>1, <3>2
      <3> QED
        BY <3>2, <3>3
    <2>3. ASSUME NEW s \in Within(m + 1)
          PROVE  h[s] = (IF s = {} THEN base ELSE step[pick[s]][h[s \ {pick[s]}]]) /\ h[s] \in R
      <3>1. CASE s = {}
        <4>1. s \in Within(m)
          BY <1>1, <3>1
        <4> QED
          BY <2>1, <3>1, <4>1
      <3>2. CASE s # {} /\ s \in Within(m)
        BY <2>1, <2>2, <3>2
      <3>3. CASE s # {} /\ s \notin Within(m)
        <4>1. h[s] = step[pick[s]][g[s \ {pick[s]}]]
          BY <3>3
        <4>2. g[s \ {pick[s]}] \in R /\ pick[s] \in S
          BY <2>2, <3>3
        <4>3. h[s] = step[pick[s]][h[s \ {pick[s]}]]
          BY <2>2, <3>3, <4>1
        <4>4. step[pick[s]] \in [R -> R]
          BY <4>2
        <4>5. h[s] \in R
          BY <4>1, <4>2, <4>4
        <4> QED
          BY <3>3, <4>3, <4>5
      <3> QED
        BY <3>1, <3>2, <3>3
    <2>4. h \in [Within(m + 1) -> R] /\ Folds(h, m + 1)
      BY <2>3
    <2> HIDE DEF h, Folds, Within
    <2> QED
      BY <2>4
  <1> HIDE DEF done
  <1>5. Cardinality(S) \in Nat /\ \A k \in 0..Cardinality(S) : k < Cardinality(S) /\ k \in done => k + 1 \in done
    BY <1>1, <1>4
  <1>6. Cardinality(S) \in done
    <2> DEFINE n == Cardinality(S)
    <2>1. n \in Nat /\ 0 \in done /\ \A k \in 0..n : k < n /\ k \in done => k + 1 \in done
      BY <1>3, <1>5
    <2> HIDE DEF n
    <2>2. \A k \in 0..n : k \in done
      BY <2>1, Counting
    <2>3. n \in 0..n
      BY <2>1
    <2> QED
      BY <2>2, <2>3 DEF n
  <1>7. Within(Cardinality(S)) = SUBSET S
    BY <1>1
  <1> QED
    BY <1>6, <1>7 DEF done

\* Two folds that take the same step everywhere have the same value.
LEMMA FoldUnique ==
  ASSUME NEW S, IsFiniteSet(S), NEW pick, Picks(pick, S), NEW f, NEW g, SameSteps(f, g, S, pick)
  PROVE  \A s \in SUBSET S : f[s] = g[s]
  <1> USE DEF Picks, SameSteps
  <1> DEFINE differ == {m \in Nat : \E s \in SUBSET S : Cardinality(s) = m /\ f[s] # g[s]}
  <1>1. \A s \in SUBSET S : IsFiniteSet(s) /\ Cardinality(s) \in Nat
    BY FS_Subset, FS_CardinalityType
  <1>2. SUFFICES ASSUME NEW s0 \in SUBSET S, f[s0] # g[s0] PROVE FALSE
    OBVIOUS
  <1>3. Cardinality(s0) \in differ
    BY <1>1, <1>2
  <1>4. differ # {} /\ differ \subseteq Nat
    BY <1>3
  <1> HIDE DEF differ
  <1>5. PICK m \in differ : \A k \in differ : m <= k
    BY <1>4, LeastNumber
  <1>6. PICK s \in SUBSET S : Cardinality(s) = m /\ f[s] # g[s]
    BY <1>5 DEF differ
  <1>7. s # {} /\ pick[s] \in s
    BY <1>6
  <1>8. s \ {pick[s]} \in SUBSET S /\ Cardinality(s \ {pick[s]}) = m - 1 /\ m \in Nat
    BY <1>1, <1>6, <1>7, FS_RemoveElement
  <1>9. f[s \ {pick[s]}] # g[s \ {pick[s]}]
    BY <1>6, <1>7
  <1>10. m - 1 \in differ
    BY <1>1, <1>8, <1>9 DEF differ
  <1> QED
    BY <1>5, <1>8, <1>10

\* The greatest and the smallest number of a set.
Greatest(s) == CHOOSE x \in s : \A y \in s : x >= y
Smallest(s) == CHOOSE x \in s : \A y \in s : x <= y

\* A set of numbers up to n has a greatest one.
LEMMA GreatestIs ==
  ASSUME NEW n \in Nat, NEW s \in SUBSET (1..n), s # {}
  PROVE  Greatest(s) \in s /\ \A y \in s : Greatest(s) >= y
  <1> DEFINE left == {n - x : x \in s}
  <1>0. \A x \in s : x \in 1..n /\ n - x \in Nat
    OBVIOUS
  <1>1. left \subseteq Nat /\ left # {}
    BY <1>0
  <1>2. PICK d \in left : \A y \in left : d <= y
    <2> HIDE DEF left
    <2> QED
      BY <1>1, LeastNumber
  <1>3. PICK x \in s : d = n - x
    BY <1>2
  <1>4. \A y \in s : n - x <= n - y
    BY <1>2, <1>3
  <1>5. \A y \in s : y \in Int /\ x \in Int /\ n \in Int
    OBVIOUS
  <1>6. \A y \in s : x >= y
    BY <1>4, <1>5
  <1> QED
    BY <1>6 DEF Greatest

\* A set of numbers up to n has a smallest one.
LEMMA SmallestIs ==
  ASSUME NEW n \in Nat, NEW s \in SUBSET (1..n), s # {}
  PROVE  Smallest(s) \in s /\ \A y \in s : Smallest(s) <= y
  <1>1. s \subseteq Nat
    OBVIOUS
  <1>2. \E x \in s : \A y \in s : x <= y
    BY <1>1, LeastNumber
  <1> QED
    BY <1>2 DEF Smallest

\* A fold from the left is the last value of a run over the sequence; whatever solves the same
\* recursion has its value.
Agrees(f, g, n, Top(_)) ==
    /\ f[{}] = g[{}]
    /\ \A s \in SUBSET (1..n) : s # {} /\ f[s \ {Top(s)}] = g[s \ {Top(s)}] => f[s] = g[s]

\* t is the run of the steps 1, 2, .. from base, and its last value is that of every function that
\* folds the steps as g does.
RunsLeft(g, t, n, base, step) ==
    /\ \A s \in SUBSET (1..n) :
           g[s] = IF s = {} THEN base ELSE step[Greatest(s)][g[s \ {Greatest(s)}]]
    /\ t[0] = base /\ \A k \in 1..n : t[k] = step[k][t[k - 1]]
    /\ \A f : Agrees(f, g, n, Greatest) => f[1..n] = t[n]

\* A fold from the left is the last value of a run over the elements in their order.
LEMMA FoldFromLeft ==
  ASSUME NEW n \in Nat, NEW R, NEW base \in R, NEW step \in [1..n -> [R -> R]]
  PROVE  \E g \in [SUBSET (1..n) -> R], t \in [0..n -> R] : RunsLeft(g, t, n, base, step)
  <1> DEFINE pick == [s \in SUBSET (1..n) |-> Greatest(s)]
  <1>1. IsFiniteSet(1..n)
    BY FS_Interval
  <1>2. \A s \in SUBSET (1..n) : s # {} => pick[s] \in s
    BY GreatestIs
  <1>3. PICK g \in [SUBSET (1..n) -> R] : \A s \in SUBSET (1..n) :
            g[s] = IF s = {} THEN base ELSE step[pick[s]][g[s \ {pick[s]}]]
    <2>1. Picks(pick, 1..n)
      BY <1>2 DEF Picks
    <2> HIDE DEF pick
    <2>2. \E g \in [SUBSET (1..n) -> R] : FoldsBy(g, 1..n, base, pick, step)
      BY <1>1, <2>1, FoldExists
    <2> QED
      BY <2>2 DEF FoldsBy
  <1> DEFINE t == [k \in 0..n |-> g[1..k]]
  <1>4. \A k \in 0..n : 1..k \in SUBSET (1..n)
    OBVIOUS
  <1>5. t \in [0..n -> R] /\ t[0] = base
    <2>1. 1..0 = {} /\ 0 \in 0..n
      OBVIOUS
    <2> QED
      BY <1>3, <1>4, <2>1
  <1>6. ASSUME NEW k \in 1..n PROVE t[k] = step[k][t[k - 1]]
    <2>1. k \in 1..k /\ 1..k # {} /\ 1..k \in SUBSET (1..n)
      BY <1>4
    <2>2. Greatest(1..k) \in 1..k /\ Greatest(1..k) >= k
      BY <2>1, GreatestIs
    <2>3. Greatest(1..k) = k /\ (1..k) \ {k} = 1..(k - 1)
      BY <2>2
    <2>4. pick[1..k] = k
      BY <2>1, <2>3
    <2>5. g[1..k] = step[k][g[1..(k - 1)]]
      <3> HIDE DEF pick
      <3> QED
        BY <1>3, <2>1, <2>3, <2>4
    <2> QED
      BY <2>5
  <1>7. ASSUME NEW f, Agrees(f, g, n, Greatest) PROVE f[1..n] = t[n]
    <2>1. SameSteps(f, g, 1..n, pick) /\ Picks(pick, 1..n)
      BY <1>2, <1>7 DEF Agrees, SameSteps, Picks
    <2> DEFINE S == 1..n
    <2> HIDE DEF pick
    <2>1a. IsFiniteSet(S) /\ SameSteps(f, g, S, pick) /\ Picks(pick, S)
      BY <1>1, <2>1
    <2> HIDE DEF S
    <2>1b. \A s \in SUBSET S : f[s] = g[s]
      BY <2>1a, FoldUnique
    <2>2. \A s \in SUBSET (1..n) : f[s] = g[s]
      BY <2>1b DEF S
    <2> QED
      BY <2>2
  <1>8. \A s \in SUBSET (1..n) :
            g[s] = IF s = {} THEN base ELSE step[Greatest(s)][g[s \ {Greatest(s)}]]
    BY <1>3
  <1> HIDE DEF t
  <1>9. RunsLeft(g, t, n, base, step)
    BY <1>5, <1>6, <1>7, <1>8 DEF RunsLeft
  <1> QED
    BY <1>5, <1>9

-----------------------------------------------------------------------------
(* SpeakerMapping: the ids                                                 *)

\* A sum over the parts of a finite set counts every two elements of a part at least.
SumsUp(g, S, w) == \A s \in SUBSET S :
    g[s] = IF s = {} THEN 0 ELSE w[CHOOSE x \in s : TRUE] + g[s \ {CHOOSE x \in s : TRUE}]
Covers(g, s, w) == /\ \A a \in s : w[a] <= g[s]
                   /\ \A a, b \in s : a # b => w[a] + w[b] <= g[s]

\* The weights of a finite set of numbers make the cover no smaller than any one of them.
LEMMA SumCovers ==
  ASSUME NEW S, IsFiniteSet(S), NEW w \in [S -> Nat], NEW g \in [SUBSET S -> Nat], SumsUp(g, S, w)
  PROVE  Covers(g, S, w)
  <1> DEFINE bad == {m \in Nat : \E s \in SUBSET S : Cardinality(s) = m /\ ~Covers(g, s, w)}
  <1>1. \A s \in SUBSET S : IsFiniteSet(s) /\ Cardinality(s) \in Nat
    BY FS_Subset, FS_CardinalityType
  <1>2. SUFFICES ASSUME NEW s0 \in SUBSET S, ~Covers(g, s0, w) PROVE FALSE
    OBVIOUS
  <1>3. bad \subseteq Nat /\ bad # {}
    BY <1>1, <1>2
  <1>4. PICK m \in bad : \A k \in bad : m <= k
    <2> HIDE DEF bad
    <2> QED
      BY <1>3, LeastNumber
  <1>5. PICK s \in SUBSET S : Cardinality(s) = m /\ ~Covers(g, s, w)
    BY <1>4
  <1> DEFINE x == CHOOSE x \in s : TRUE
             rest == s \ {x}
  <1>6. s # {}
    BY <1>5 DEF Covers
  <1>7. x \in s /\ x \in S /\ rest \in SUBSET S /\ m \in Nat
    BY <1>3, <1>4, <1>6
  <1>8. Cardinality(rest) = m - 1
    <2> HIDE DEF x
    <2> QED
      BY <1>1, <1>5, <1>7, FS_RemoveElement
  <1>9. g[s] = w[x] + g[rest]
    BY <1>6 DEF SumsUp
  <1>10. Covers(g, rest, w)
    <2>1. m - 1 \notin bad
      BY <1>4, <1>7
    <2>2. Cardinality(rest) \in Nat
      BY <1>1, <1>7
    <2> HIDE DEF x, rest
    <2> QED
      BY <1>7, <1>8, <2>1, <2>2
  <1>11. w[x] \in Nat /\ g[rest] \in Nat /\ \A a \in rest : w[a] \in Nat
    BY <1>7
  <1>12. \A a \in s : a = x \/ a \in rest
    OBVIOUS
  <1> HIDE DEF x, rest, bad
  <1>13. \A a \in s : w[a] <= g[s]
    BY <1>9, <1>10, <1>11, <1>12 DEF Covers
  <1>14. ASSUME NEW a \in s, NEW b \in s, a # b PROVE w[a] + w[b] <= g[s]
    <2>1. CASE a = x /\ b \in rest
      BY <2>1, <1>9, <1>10, <1>11 DEF Covers
    <2>2. CASE b = x /\ a \in rest
      BY <2>2, <1>9, <1>10, <1>11 DEF Covers
    <2>3. CASE a \in rest /\ b \in rest
      <3>1. w[a] + w[b] <= g[rest] /\ w[a] \in Nat /\ w[b] \in Nat
        BY <1>10, <1>11, <1>14, <2>3 DEF Covers
      <3> QED
        BY <3>1, <1>9, <1>11
    <2> QED
      BY <1>12, <1>14, <2>1, <2>2, <2>3
  <1> QED
    BY <1>5, <1>13, <1>14 DEF Covers

\* A library sum is one of these.
LEMMA SmSum ==
  ASSUME NEW current, NEW p, IsFiniteSet(Sm!Speaking(current)),
         \A l \in Sm!Speaking(current) : Sm!Score(current, l, p) \in Nat
  PROVE  /\ Sm!TotalOld(current, p) \in Nat
         /\ \A k, l \in Sm!Speaking(current) :
                k # l => Sm!Score(current, k, p) + Sm!Score(current, l, p) <= Sm!TotalOld(current, p)
  <1> DEFINE S == Sm!Speaking(current)
             w == [l \in S |-> Sm!Score(current, l, p)]
             pick == [s \in SUBSET S |-> CHOOSE x \in s : TRUE]
             step == [l \in S |-> [n \in Nat |-> w[l] + n]]
             Runs(f) == f = [s \in SUBSET S |->
                                IF s = {} THEN 0
                                ELSE Sm!Score(current, CHOOSE x \in s : TRUE, p) + f[s \ {CHOOSE x \in s : TRUE}]]
  <1>1. Sm!TotalOld(current, p) = (CHOOSE f : Runs(f))[S]
    BY DEF Sm!TotalOld, Sm!MapThenSumSet, Sm!MapThenFoldSet
  <1>2. w \in [S -> Nat]
    OBVIOUS
  <1>3. step \in [S -> [Nat -> Nat]]
    BY <1>2
  <1>4. \A s \in SUBSET S : s # {} => (CHOOSE x \in s : TRUE) \in s
    OBVIOUS
  <1>5. Picks(pick, S)
    BY <1>4 DEF Picks
  <1>6. PICK g \in [SUBSET S -> Nat] : FoldsBy(g, S, 0, pick, step)
    <2> HIDE DEF pick, step, w, S
    <2> QED
      BY <1>3, <1>5, FoldExists DEF S
  <1>7. SumsUp(g, S, w)
    <2> SUFFICES ASSUME NEW s \in SUBSET S
                 PROVE  g[s] = IF s = {} THEN 0 ELSE w[CHOOSE x \in s : TRUE] + g[s \ {CHOOSE x \in s : TRUE}]
      BY DEF SumsUp
    <2>1. g[s] = IF s = {} THEN 0 ELSE step[pick[s]][g[s \ {pick[s]}]]
      BY <1>6 DEF FoldsBy
    <2>2. CASE s = {}
      BY <2>1, <2>2
    <2>3. CASE s # {}
      <3>1. pick[s] = (CHOOSE x \in s : TRUE) /\ pick[s] \in S
        BY <1>4, <2>3
      <3>2. g[s \ {pick[s]}] \in Nat
        BY <1>6
      <3> HIDE DEF pick
      <3>3. step[pick[s]][g[s \ {pick[s]}]] = w[pick[s]] + g[s \ {pick[s]}]
        BY <3>1, <3>2
      <3> HIDE DEF step, w
      <3> QED
        BY <2>1, <2>3, <3>1, <3>3
    <2> QED
      BY <2>2, <2>3
  <1>8. \A s \in SUBSET S : s # {} => w[CHOOSE x \in s : TRUE] = Sm!Score(current, CHOOSE x \in s : TRUE, p)
    BY <1>4
  <1>9. Runs(g)
    <2> HIDE DEF w
    <2> QED
      BY <1>7, <1>8 DEF SumsUp
  <1>10. Runs(CHOOSE f : Runs(f))
    <2> HIDE DEF Runs
    <2> QED
      BY <1>9
  <1> DEFINE f == CHOOSE f : Runs(f)
  <1>11. f[S] = g[S]
    <2> HIDE DEF f
    <2>1. \A s \in SUBSET S : f[s] = IF s = {} THEN 0
                                      ELSE Sm!Score(current, CHOOSE x \in s : TRUE, p) + f[s \ {CHOOSE x \in s : TRUE}]
      BY <1>10 DEF f
    <2>2. \A s \in SUBSET S : g[s] = IF s = {} THEN 0
                                      ELSE Sm!Score(current, CHOOSE x \in s : TRUE, p) + g[s \ {CHOOSE x \in s : TRUE}]
      BY <1>9
    <2>3. \A s \in SUBSET S : s # {} => pick[s] = CHOOSE x \in s : TRUE
      OBVIOUS
    <2> HIDE DEF pick
    <2>3a. f[{}] = g[{}]
      BY <2>1, <2>2
    <2>3b. ASSUME NEW s \in SUBSET S, s # {}, f[s \ {pick[s]}] = g[s \ {pick[s]}] PROVE f[s] = g[s]
      <3> DEFINE x == CHOOSE x \in s : TRUE
      <3>1. f[s \ {x}] = g[s \ {x}]
        BY <2>3, <2>3b
      <3>2. f[s] = Sm!Score(current, x, p) + f[s \ {x}]
        BY <2>1, <2>3b
      <3>3. g[s] = Sm!Score(current, x, p) + g[s \ {x}]
        BY <2>2, <2>3b
      <3> HIDE DEF x
      <3> QED
        BY <3>1, <3>2, <3>3
    <2>4. SameSteps(f, g, S, pick)
      BY <2>3a, <2>3b DEF SameSteps
    <2> HIDE DEF S
    <2>5. \A s \in SUBSET S : f[s] = g[s]
      BY <1>5, <2>4, FoldUnique DEF S
    <2> QED
      BY <2>5
  <1>12. Covers(g, S, w)
    <2> HIDE DEF w, S
    <2> QED
      BY <1>2, <1>6, <1>7, SumCovers DEF S
  <1>13. Sm!TotalOld(current, p) = g[S] /\ g[S] \in Nat
    BY <1>1, <1>6, <1>11
  <1>14. \A l \in S : w[l] = Sm!Score(current, l, p)
    OBVIOUS
  <1> HIDE DEF w
  <1> QED
    BY <1>12, <1>13, <1>14 DEF Covers

\* An instance has its own copy of what a library module defines; the copies agree.
LEMMA SmCardinality == ASSUME NEW S PROVE Sm!Cardinality(S) = Cardinality(S)
  BY DEF Sm!Cardinality, Cardinality

\* The labels are finitely many, and so are the ids that may be handed out.
LEMMA SmNumbers ==
    /\ Talk \in Nat /\ MaxAnalyses \in Nat /\ Cardinality(Labels) \in Nat /\ Labels \subseteq Nat
    /\ Cardinality(Labels) * MaxAnalyses \in Nat
    /\ Sm!Ids = 1..Cardinality(Labels) * MaxAnalyses
  BY TalkAssumption, FS_CardinalityType, SmCardinality DEF Sm!Ids

\* What is known of the ids between two analyses.
SmKnown ==
    /\ Sm!TypeOK /\ nextId <= Cardinality(Labels) * analyses + 1
    /\ \A t \in previous : t.speaker < nextId
SmInv2 == SmKnown /\ Sm!SpeakersStayApart

\* Every span of exclusive speech lies in the talk and is of one who speaks there.
LEMMA SmTurns ==
  ASSUME NEW voices, NEW t \in Sm!Exclusive(voices)
  PROVE  /\ t.from \in 0..Talk - 1 /\ t.to \in 1..Talk /\ t.from < t.to
         /\ t = [from |-> t.from, to |-> t.to, speaker |-> t.speaker]
         /\ \E u \in 1..Talk : t.speaker \in voices[u]
  <1> DEFINE Until(u) == Sm!Max({v \in u..Talk : \A w \in u..v : voices[w] = voices[u]})
  <1>1. PICK u \in 1..Talk : /\ Sm!Cardinality(voices[u]) = 1
                             /\ t = [from |-> u - 1, to |-> Until(u), speaker |-> CHOOSE s \in voices[u] : TRUE]
    BY DEF Sm!Exclusive
  <1>2. Until(u) \in u..Talk
    BY SmSpan
  <1>3. voices[u] # {}
    <2>1. Cardinality(voices[u]) = 1
      BY <1>1, SmCardinality
    <2>2. Cardinality({}) = 0
      BY FS_EmptySet
    <2> QED
      BY <2>1, <2>2
  <1>4. t.speaker \in voices[u]
    BY <1>1, <1>3
  <1> HIDE DEF Until
  <1>5. t.from = u - 1 /\ t.to = Until(u) /\ u \in Nat /\ Talk \in Nat
    BY <1>1, SmNumbers
  <1>6. t = [from |-> t.from, to |-> t.to, speaker |-> t.speaker]
    BY <1>1
  <1> QED
    BY <1>2, <1>4, <1>5, <1>6

\* The units an id has spoken in are finitely many, so scores are numbers.
LEMMA SmScore ==
  ASSUME Sm!TypeOK, NEW current, NEW l, NEW p
  PROVE  /\ Sm!Score(current, l, p) \in 0..Talk
         /\ Sm!Score(current, l, p) >= 1 => l \in Sm!Speaking(current)
  <1> DEFINE S == Sm!UnitsOf(current, l) \cap Sm!UnitsOf(previous, p)
  <1>1. Sm!UnitsOf(previous, p) \subseteq 1..Talk
    <2>1. \A t \in previous : t.from \in 0..Talk - 1 /\ t.to \in 1..Talk
      BY DEF Sm!TypeOK, Sm!Turns
    <2>2. \A t \in previous : t.from + 1..t.to \subseteq 1..Talk
      BY <2>1, SmNumbers
    <2> QED
      BY <2>2 DEF Sm!UnitsOf
  <1>2. S \in SUBSET (1..Talk)
    BY <1>1
  <1>3. IsFiniteSet(1..Talk) /\ Cardinality(1..Talk) = Talk
    <2>1. 1 \in Int /\ Talk \in Int
      BY SmNumbers
    <2>2. IsFiniteSet(1..Talk) /\ Cardinality(1..Talk) = IF 1 > Talk THEN 0 ELSE Talk - 1 + 1
      BY <2>1, FS_Interval
    <2> QED
      BY <2>2, SmNumbers
  <1>4. IsFiniteSet(S) /\ Cardinality(S) \in Nat /\ Cardinality(S) <= Talk
    <2> HIDE DEF S
    <2>1. IsFiniteSet(S) /\ Cardinality(S) <= Cardinality(1..Talk)
      BY <1>2, <1>3, FS_Subset
    <2> QED
      BY <1>3, <2>1, FS_CardinalityType
  <1>5. Sm!Score(current, l, p) = Cardinality(S)
    BY SmCardinality DEF Sm!Score
  <1>6. Cardinality(S) >= 1 => l \in Sm!Speaking(current)
    <2>1. SUFFICES ASSUME Cardinality(S) >= 1 PROVE l \in Sm!Speaking(current)
      OBVIOUS
    <2>2. S # {}
      BY <2>1, FS_EmptySet
    <2>3. PICK u \in Sm!UnitsOf(current, l) : TRUE
      BY <2>2
    <2> QED
      BY <2>3 DEF Sm!UnitsOf, Sm!Speaking
  <1> QED
    BY <1>4, <1>5, <1>6, SmNumbers

\* Of the known ids there is one with the most in common, the last of these.
LEMMA SmBest ==
  ASSUME Sm!TypeOK, NEW current, NEW l, Sm!Known(current, l)
  PROVE  /\ Sm!Best(current, l) \in Sm!Speaking(previous)
         /\ Sm!Score(current, l, Sm!Best(current, l)) >= 1
  <1> DEFINE P == Sm!Speaking(previous)
             Common(p) == Sm!Score(current, l, p)
             scores == {Common(p) : p \in P}
             N == Cardinality(Labels) * MaxAnalyses
  <1>1. P \subseteq 0..N
    <2>1. \A t \in previous : t.speaker \in Sm!Ids
      BY DEF Sm!TypeOK, Sm!Turns
    <2> QED
      BY <2>1, SmNumbers DEF Sm!Speaking
  <1>2. PICK o \in P : Common(o) >= 1
    BY DEF Sm!Known
  <1>3. \A p \in P : Common(p) \in 0..Talk
    BY SmScore
  <1>4. scores \subseteq 0..Talk /\ scores # {}
    BY <1>2, <1>3
  <1>5. PICK m \in scores : \A y \in scores : m >= y
    <2> HIDE DEF scores
    <2> QED
      BY <1>4, SmNumbers, LcMax
  <1> DEFINE tops == {p \in P : Common(p) = m}
  <1>6. tops \subseteq 0..N /\ tops # {}
    BY <1>1, <1>5
  <1>7. PICK top \in tops : \A p \in tops : top >= p
    <2> HIDE DEF tops, N
    <2> QED
      BY <1>6, SmNumbers, LcMax DEF N
  <1> HIDE DEF P
  <1>8. \A p \in P : Common(p) \in Nat /\ p \in Nat /\ m \in Nat /\ m >= Common(p)
    <2>1. m \in 0..Talk
      BY <1>4, <1>5
    <2>2. \A p \in P : Common(p) \in 0..Talk /\ p \in 0..N /\ m >= Common(p)
      BY <1>1, <1>3, <1>5
    <2> HIDE DEF Common, N
    <2> QED
      BY <2>1, <2>2, SmNumbers DEF N
  <1> HIDE DEF Common, scores
  <1>9. \A p \in P : Common(p) < Common(top) \/ (Common(p) = Common(top) /\ p <= top)
    <2>1. SUFFICES ASSUME NEW p \in P PROVE Common(p) < Common(top) \/ (Common(p) = Common(top) /\ p <= top)
      OBVIOUS
    <2>2. top \in P /\ Common(top) = m
      BY <1>7
    <2>3. CASE Common(p) = m
      <3>1. top >= p
        BY <1>7, <2>3
      <3> QED
        BY <1>8, <2>2, <2>3, <3>1
    <2>4. CASE Common(p) # m
      BY <1>8, <2>2, <2>4
    <2> QED
      BY <2>3, <2>4
  <1>10. \E q \in P : \A p \in P : Common(p) < Common(q) \/ (Common(p) = Common(q) /\ p <= q)
    BY <1>7, <1>9
  <1>11. /\ Sm!Best(current, l) \in P
         /\ \A p \in P : \/ Common(p) < Common(Sm!Best(current, l))
                         \/ Common(p) = Common(Sm!Best(current, l)) /\ p <= Sm!Best(current, l)
    <2>1. Sm!Best(current, l) =
              CHOOSE q \in P : \A p \in P : Common(p) < Common(q) \/ (Common(p) = Common(q) /\ p <= q)
      BY DEF Sm!Best, P, Common
    <2> QED
      BY <1>10, <2>1
  <1>12. Common(Sm!Best(current, l)) >= 1
    <2>1. o \in P /\ Common(o) >= 1
      BY <1>2
    <2> QED
      BY <1>8, <1>11, <2>1
  <1> QED
    BY <1>11, <1>12 DEF P, Common

\* How many numbers of a set are below one of them.
Below(S, n) == Cardinality({f \in S : f < n})

\* The numbers of a finite set are ranked by how many are below them.
LEMMA SmRank ==
  ASSUME NEW S \in SUBSET Nat, IsFiniteSet(S)
  PROVE  /\ Cardinality(S) \in Nat /\ \A n \in S : Below(S, n) \in Nat /\ Below(S, n) < Cardinality(S)
         /\ \A m, n \in S : m < n => Below(S, m) < Below(S, n)
  <1>1. \A T \in SUBSET S : IsFiniteSet(T) /\ Cardinality(T) \in Nat
    BY FS_Subset, FS_CardinalityType
  <1>2. ASSUME NEW n \in S, NEW T \in SUBSET S, {f \in S : f < n} \cup {n} \subseteq T
        PROVE  Below(S, n) < Cardinality(T)
    <2> DEFINE B == {f \in S : f < n}
    <2>1. B \in SUBSET S /\ n \notin B /\ B \cup {n} \in SUBSET T /\ IsFiniteSet(T) /\ IsFiniteSet(B)
      BY <1>1, <1>2
    <2>2. Below(S, n) = Cardinality(B) /\ Cardinality(B) \in Nat /\ Cardinality(T) \in Nat
      BY <1>1, <2>1 DEF Below
    <2> HIDE DEF B
    <2>3. Cardinality(B \cup {n}) = Cardinality(B) + 1
      BY <2>1, FS_AddElement
    <2>4. Cardinality(B \cup {n}) <= Cardinality(T)
      BY <2>1, FS_Subset
    <2> QED
      BY <2>2, <2>3, <2>4
  <1>3. \A n \in S : Below(S, n) \in Nat
    BY <1>1 DEF Below
  <1>4. \A n \in S : Below(S, n) < Cardinality(S)
    <2>1. \A n \in S : {f \in S : f < n} \cup {n} \subseteq S
      OBVIOUS
    <2> QED
      BY <1>2, <2>1
  <1>5. \A m, n \in S : m < n => Below(S, m) < Below(S, n)
    <2>1. SUFFICES ASSUME NEW m \in S, NEW n \in S, m < n PROVE Below(S, m) < Below(S, n)
      OBVIOUS
    <2>2. {f \in S : f < m} \cup {m} \subseteq {f \in S : f < n}
      <3>1. \A f \in S : f \in Nat /\ m \in Nat /\ n \in Nat
        OBVIOUS
      <3>2. \A f \in S : f < m => f < n
        BY <2>1, <3>1
      <3> QED
        BY <2>1, <3>2
    <2>3. {f \in S : f < n} \in SUBSET S
      OBVIOUS
    <2>4. Below(S, m) < Cardinality({f \in S : f < n})
      BY <1>2, <2>2, <2>3
    <2> QED
      BY <2>4 DEF Below
  <1> QED
    BY <1>1, <1>3, <1>4, <1>5

\* What becomes of a label: it is new, or it is one that is known, or it is none.
SmIsNew(l, fresh, id) == l \in fresh /\ id = nextId + Below(fresh, l)
SmIsKnown(current, l, id) ==
    /\ id = Sm!Best(current, l) /\ Sm!Known(current, l) /\ Sm!Resolved(current, l, id)

\* Every label becomes one of the three.
LEMMA SmNamed ==
  ASSUME NEW current, NEW fresh, NEW l \in Labels
  PROVE  LET id == Sm!Mapping(current, fresh)[l] IN
         SmIsNew(l, fresh, id) \/ SmIsKnown(current, l, id) \/ id = None
  <1>1. Sm!Mapping(current, fresh)[l] =
            IF l \in fresh THEN nextId + Sm!Cardinality({f \in fresh : f < l})
            ELSE IF Sm!Known(current, l) /\ Sm!Resolved(current, l, Sm!Best(current, l)) THEN Sm!Best(current, l)
            ELSE None
    BY DEF Sm!Mapping
  <1> QED
    BY <1>1, SmCardinality DEF SmIsNew, SmIsKnown, Below

\* Two labels of one analysis are no one known speaker: they would need more than all it has.
LEMMA SmOnlyOne ==
  ASSUME Sm!TypeOK, NEW current, IsFiniteSet(Sm!Speaking(current)), NEW k, NEW l, k # l, NEW id
  PROVE  ~(SmIsKnown(current, k, id) /\ SmIsKnown(current, l, id))
  <1>1. SUFFICES ASSUME SmIsKnown(current, k, id), SmIsKnown(current, l, id) PROVE FALSE
    OBVIOUS
  <1>2. Sm!Score(current, k, id) >= 1 /\ Sm!Score(current, l, id) >= 1
    BY <1>1, SmBest DEF SmIsKnown
  <1>3. /\ Sm!Score(current, k, id) \in Nat /\ Sm!Score(current, l, id) \in Nat
        /\ \A m \in Sm!Speaking(current) : Sm!Score(current, m, id) \in Nat
    BY SmScore, SmNumbers
  <1>4. k \in Sm!Speaking(current) /\ l \in Sm!Speaking(current)
    BY <1>2, SmScore
  <1>5. /\ Sm!TotalOld(current, id) \in Nat
        /\ Sm!Score(current, k, id) + Sm!Score(current, l, id) <= Sm!TotalOld(current, id)
    BY <1>3, <1>4, SmSum
  <1>6. /\ 10 * Sm!Score(current, k, id) >= 7 * Sm!TotalOld(current, id)
        /\ 10 * Sm!Score(current, l, id) >= 7 * Sm!TotalOld(current, id)
    BY <1>1 DEF SmIsKnown, Sm!Resolved
  <1> QED
    BY <1>2, <1>3, <1>5, <1>6

\* Numbers: the ids handed out so far and now fit into Ids.
LEMMA SmRoom ==
  ASSUME NEW C \in Nat, NEW a \in Nat, NEW max \in Nat, a < max, NEW id \in Nat, id <= C * a + 1,
         NEW n \in Nat, n <= C
  PROVE  id + n <= C * (a + 1) + 1 /\ id + n <= C * max + 1
  <1>1. C * (a + 1) = C * a + C /\ C * a \in Nat
    OBVIOUS
  <1>2. PICK d \in Nat : max = a + 1 + d
    <2>1. max - (a + 1) \in Nat /\ max = a + 1 + (max - (a + 1))
      OBVIOUS
    <2> QED
      BY <2>1
  <1>3. C * max = C * (a + 1) + C * d /\ C * d \in Nat
    BY <1>2
  <1> QED
    BY <1>1, <1>3

\* Every analysis keeps what is known of the ids, and no two voices share one.
LEMMA SmKnownStep == ASSUME SmInv2, Sm!Analyse PROVE SmInv2'
  <1>1. PICK voices \in [1..Talk -> SUBSET Labels] : Sm!Map(voices)
    BY DEF Sm!Analyse
  <1> DEFINE current == Sm!Exclusive(voices)
             fresh == Sm!Fresh(current)
             C == Cardinality(Labels)
             Given == {n \in Sm!Ids : n < nextId'}
  <1>2. /\ mapping' = Sm!Mapping(current, fresh) /\ nextId' = nextId + Sm!Cardinality(fresh)
        /\ turns' = [u \in 1..Talk |-> {mapping'[l] : l \in voices[u]} \ {None}]
        /\ previous' = (IF Sm!Exclusive(turns') = {} THEN previous
                        ELSE Sm!Exclusive(turns') \cup Sm!Kept(Sm!Exclusive(turns')))
        /\ analyses < MaxAnalyses /\ analyses' = analyses + 1
    BY <1>1 DEF Sm!Map, Sm!Analyse
  <1>3. Sm!TypeOK /\ nextId <= C * analyses + 1 /\ \A t \in previous : t.speaker < nextId
    BY DEF SmInv2, SmKnown
  <1>4. /\ nextId \in Nat /\ nextId >= 1 /\ analyses \in Nat /\ C \in Nat /\ MaxAnalyses \in Nat
        /\ Labels \in SUBSET Nat /\ IsFiniteSet(Labels)
    <2>1. Sm!Cardinality(Labels) = C /\ C * MaxAnalyses \in Nat
      BY SmCardinality, SmNumbers
    <2>2. nextId \in 1..C * MaxAnalyses + 1 /\ analyses \in 0..MaxAnalyses
      BY <1>3, <2>1 DEF Sm!TypeOK
    <2> HIDE DEF C
    <2> QED
      BY <2>1, <2>2, SmNumbers, TalkAssumption DEF C
  <1>5. Sm!Speaking(current) \in SUBSET Labels
    <2>1. \A t \in current : \E u \in 1..Talk : t.speaker \in voices[u]
      BY SmTurns
    <2>2. \A u \in 1..Talk : voices[u] \subseteq Labels
      BY <1>1
    <2> HIDE DEF current
    <2> QED
      BY <2>1, <2>2 DEF Sm!Speaking
  <1>6. IsFiniteSet(Sm!Speaking(current))
    BY <1>4, <1>5, FS_Subset
  <1> HIDE DEF current
  <1>7. fresh \in SUBSET Labels /\ IsFiniteSet(fresh) /\ Cardinality(fresh) \in Nat /\ Cardinality(fresh) <= C
    <2>1. fresh \in SUBSET Labels
      BY <1>5 DEF Sm!Fresh
    <2> HIDE DEF fresh
    <2> QED
      BY <1>4, <2>1, FS_Subset, FS_CardinalityType
  <1> HIDE DEF fresh
  <1>8. nextId' = nextId + Cardinality(fresh)
    BY <1>2, SmCardinality
  <1>9. /\ nextId' \in Nat /\ nextId' >= 1 /\ nextId' >= nextId /\ nextId' <= C * analyses' + 1
        /\ nextId' <= C * MaxAnalyses + 1 /\ analyses' \in 0..MaxAnalyses
    <2>1. /\ nextId + Cardinality(fresh) <= C * (analyses + 1) + 1
          /\ nextId + Cardinality(fresh) <= C * MaxAnalyses + 1
      <3> HIDE DEF C
      <3> QED
        BY <1>2, <1>3, <1>4, <1>7, SmRoom
    <2> HIDE DEF C
    <2> QED
      BY <1>2, <1>4, <1>7, <1>8, <2>1
  <1>10. Sm!Ids = 1..C * MaxAnalyses /\ C * MaxAnalyses \in Nat
    BY SmNumbers
  <1>11. \A l \in fresh : /\ Below(fresh, l) \in Nat /\ Below(fresh, l) < Cardinality(fresh)
                          /\ \A k \in fresh : k < l => Below(fresh, k) < Below(fresh, l)
    <2>1. fresh \in SUBSET Nat
      BY <1>4, <1>7
    <2> QED
      BY <1>7, <2>1, SmRank
  <1>12. \A l \in Labels : \A id : SmIsNew(l, fresh, id) => id \in Given /\ id >= nextId
    <2>1. SUFFICES ASSUME NEW l \in Labels, NEW id, SmIsNew(l, fresh, id) PROVE id \in Given /\ id >= nextId
      OBVIOUS
    <2>2. /\ l \in fresh /\ id = nextId + Below(fresh, l) /\ Below(fresh, l) \in Nat
          /\ Below(fresh, l) < Cardinality(fresh)
      BY <1>11, <2>1 DEF SmIsNew
    <2> DEFINE b == Below(fresh, l) f == Cardinality(fresh) N == C * MaxAnalyses next == nextId'
    <2>3. /\ id = nextId + b /\ b \in Nat /\ b < f /\ f \in Nat /\ next = nextId + f /\ next <= N + 1
          /\ N \in Nat /\ nextId \in Nat /\ nextId >= 1
      BY <1>4, <1>7, <1>8, <1>9, <1>10, <2>2
    <2> HIDE DEF C, b, f, N, next
    <2>4. id \in Nat /\ id >= nextId /\ id < next /\ id >= 1 /\ id <= N
      BY <2>3
    <2>5. id \in 1..N
      BY <2>3, <2>4
    <2> QED
      BY <1>10, <2>4, <2>5 DEF next, N
  <1>13. \A t \in previous : t.speaker \in Given /\ t.speaker < nextId
    <2>1. \A t \in previous : t.speaker \in Sm!Ids
      BY <1>3 DEF Sm!TypeOK, Sm!Turns
    <2>2. \A i \in Sm!Ids : i \in Nat
      BY <1>10
    <2> HIDE DEF C
    <2>3. \A t \in previous : t.speaker \in Nat /\ t.speaker < nextId
      BY <1>3, <2>1, <2>2
    <2>4. \A i \in Nat : i < nextId => i < nextId'
      BY <1>4, <1>9
    <2> QED
      BY <2>1, <2>3, <2>4
  <1>14. \A l \in Labels : \A id : SmIsKnown(current, l, id) => id \in Given /\ id < nextId
    <2>1. SUFFICES ASSUME NEW l \in Labels, NEW id, SmIsKnown(current, l, id) PROVE id \in Given /\ id < nextId
      OBVIOUS
    <2>2. id \in Sm!Speaking(previous)
      BY <1>3, <2>1, SmBest DEF SmIsKnown
    <2> QED
      BY <1>13, <2>2 DEF Sm!Speaking
  <1>15. \A l \in Labels : SmIsNew(l, fresh, mapping'[l]) \/ SmIsKnown(current, l, mapping'[l]) \/ mapping'[l] = None
    BY <1>2, SmNamed
  <1>16. \A l \in Labels : mapping'[l] \in Given \cup {None}
    BY <1>12, <1>14, <1>15
  <1>17. mapping' \in [Labels -> Sm!Ids \cup {None}]
    <2>1. mapping' = [l \in Labels |-> mapping'[l]]
      BY <1>2 DEF Sm!Mapping
    <2> QED
      BY <1>16, <2>1
  <1>18. \A u \in 1..Talk : turns'[u] \subseteq Given
    <2>1. \A u \in 1..Talk : turns'[u] = {mapping'[l] : l \in voices[u]} \ {None}
      BY <1>2
    <2>2. \A u \in 1..Talk : voices[u] \subseteq Labels
      BY <1>1
    <2> QED
      BY <1>16, <2>1, <2>2
  <1>19. turns' \in [1..Talk -> SUBSET Sm!Ids]
    <2>1. turns' = [u \in 1..Talk |-> turns'[u]]
      BY <1>2
    <2> QED
      BY <1>18, <2>1
  <1>20. \A t \in previous' : t \in Sm!Turns /\ t.from < t.to /\ t.speaker \in Given
    <2>1. \A t \in Sm!Exclusive(turns') : t \in Sm!Turns /\ t.from < t.to /\ t.speaker \in Given
      <3>1. SUFFICES ASSUME NEW t \in Sm!Exclusive(turns') PROVE t \in Sm!Turns /\ t.from < t.to /\ t.speaker \in Given
        OBVIOUS
      <3>2. /\ t.from \in 0..Talk - 1 /\ t.to \in 1..Talk /\ t.from < t.to
            /\ t = [from |-> t.from, to |-> t.to, speaker |-> t.speaker]
            /\ \E u \in 1..Talk : t.speaker \in turns'[u]
        BY SmTurns
      <3>3. t.speaker \in Given
        BY <1>18, <3>2
      <3>4. t.speaker \in Sm!Ids
        BY <3>3
      <3> HIDE DEF Given
      <3> QED
        BY <3>2, <3>3, <3>4 DEF Sm!Turns
    <2>2. \A t \in previous : t \in Sm!Turns /\ t.from < t.to /\ t.speaker \in Given
      BY <1>3, <1>13 DEF Sm!TypeOK
    <2>3. \A t \in previous' : t \in Sm!Exclusive(turns') \/ t \in previous
      BY <1>2 DEF Sm!Kept
    <2> QED
      BY <2>1, <2>2, <2>3
  <1>21. SmKnown'
    <2>1. Sm!TypeOK'
      <3>1. nextId' \in 1..Sm!Cardinality(Labels) * MaxAnalyses + 1
        <4>1. Sm!Cardinality(Labels) = C
          BY SmCardinality
        <4> HIDE DEF C
        <4> QED
          BY <1>4, <1>9, <1>10, <4>1
      <3> HIDE DEF Given
      <3> QED
        BY <1>9, <1>17, <1>19, <1>20, <3>1 DEF Sm!TypeOK
    <2> QED
      BY <1>9, <1>20, <2>1 DEF SmKnown
  <1>22. Sm!SpeakersStayApart'
    <2>1. SUFFICES ASSUME NEW k \in Labels, NEW l \in Labels, k # l, mapping'[k] # None, mapping'[k] = mapping'[l]
                   PROVE  FALSE
      BY DEF Sm!SpeakersStayApart
    <2> DEFINE id == mapping'[k]
    <2>2. SmIsNew(k, fresh, id) \/ SmIsKnown(current, k, id)
      BY <1>15, <2>1
    <2>3. SmIsNew(l, fresh, id) \/ SmIsKnown(current, l, id)
      BY <1>15, <2>1
    <2> HIDE DEF id
    <2>4. ~(SmIsKnown(current, k, id) /\ SmIsKnown(current, l, id))
      BY <1>3, <1>6, <2>1, SmOnlyOne
    <2>5. \A m, n \in Labels : ~(SmIsNew(m, fresh, id) /\ SmIsKnown(current, n, id))
      <3>1. SUFFICES ASSUME NEW m \in Labels, NEW n \in Labels, SmIsNew(m, fresh, id), SmIsKnown(current, n, id) PROVE FALSE
        OBVIOUS
      <3>2. id >= nextId /\ id < nextId /\ id \in Given
        BY <1>12, <1>14, <3>1
      <3> QED
        BY <1>4, <1>10, <3>2
    <2>6. ~(SmIsNew(k, fresh, id) /\ SmIsNew(l, fresh, id))
      <3>1. SUFFICES ASSUME SmIsNew(k, fresh, id), SmIsNew(l, fresh, id) PROVE FALSE
        OBVIOUS
      <3>2. k \in fresh /\ l \in fresh /\ nextId + Below(fresh, k) = nextId + Below(fresh, l)
        BY <3>1 DEF SmIsNew
      <3>3. k \in Nat /\ l \in Nat /\ Below(fresh, k) \in Nat /\ Below(fresh, l) \in Nat
        BY <1>4, <1>11, <3>2
      <3>4. k < l \/ l < k
        BY <2>1, <3>3
      <3>5. Below(fresh, k) < Below(fresh, l) \/ Below(fresh, l) < Below(fresh, k)
        BY <1>11, <3>2, <3>4
      <3> QED
        BY <1>4, <3>2, <3>3, <3>5
    <2> QED
      BY <2>2, <2>3, <2>4, <2>5, <2>6
  <1> QED
    BY <1>21, <1>22 DEF SmInv2

\* Before the first analysis no id is known.
LEMMA SmKnownInit == Sm!Init => SmInv2
  <1>1. SUFFICES ASSUME Sm!Init PROVE SmInv2
    OBVIOUS
  <1> DEFINE N == Cardinality(Labels) * MaxAnalyses
  <1>2. N \in Nat /\ Sm!Ids = 1..N /\ Sm!Cardinality(Labels) * MaxAnalyses = N /\ MaxAnalyses \in Nat
        /\ Cardinality(Labels) \in Nat
    BY SmNumbers, SmCardinality
  <1>3. nextId \in 1..N + 1 /\ analyses \in 0..MaxAnalyses /\ nextId <= Cardinality(Labels) * analyses + 1
    <2> HIDE DEF N
    <2> QED
      BY <1>1, <1>2 DEF Sm!Init
  <1>4. /\ previous \subseteq Sm!Turns /\ (\A t \in previous : t.from < t.to /\ t.speaker < nextId)
        /\ mapping \in [Labels -> Sm!Ids \cup {None}] /\ turns \in [1..Talk -> SUBSET Sm!Ids]
    BY <1>1 DEF Sm!Init
  <1>5. Sm!SpeakersStayApart
    BY <1>1 DEF Sm!Init, Sm!SpeakersStayApart
  <1> HIDE DEF N
  <1> QED
    BY <1>2, <1>3, <1>4, <1>5 DEF SmInv2, SmKnown, Sm!TypeOK

\* Neither does a step of the module change it, nor a step of another module.
LEMMA SmNames == ASSUME SmInv2, [Sm!Next]_Sm!smVars PROVE SmInv2'
  <1>1. CASE Sm!Next
    BY <1>1, SmKnownStep DEF Sm!Next
  <1>2. CASE UNCHANGED Sm!smVars
    BY <1>2 DEF Sm!smVars, SmInv2, SmKnown, Sm!TypeOK, Sm!SpeakersStayApart
  <1> QED
    BY <1>1, <1>2

-----------------------------------------------------------------------------
(* TranscriptPublishing: assemble                                          *)

\* What a pass hears, and what it makes of it.
TpWord == [start : Nat, end : Nat, wording : Texts, speaker : Speakers \cup {None}, overlap : BOOLEAN]
TpCandidate == [id : {None}, revision : {1}, start : Nat, end : Nat, text : Seq(Nat \X Nat \X Texts),
                speaker : Speakers \cup {None}, overlap : BOOLEAN, status : {"stable", "partial"}, manual : {{}}]
TpHeard(w, n) ==
    /\ w \in [1..n -> TpWord]
    /\ \A i \in 1..n : w[i].start < w[i].end /\ w[i].end <= ScriptLength
    /\ \A i, j \in 1..n : i < j => w[i].start <= w[j].start

\* A word joins the last candidate or begins a new one.
LEMMA TpJoined ==
  ASSUME NEW list \in Seq(TpCandidate), NEW w \in TpWord, NEW until
  PROVE  LET r == Tp!Joined(list, w, until) n == Len(list) IN
         /\ r \in Seq(TpCandidate)
         /\ \/ /\ Len(r) = n + 1 /\ r[n + 1].start = w.start /\ r[n + 1].end = w.end
               /\ \A i \in 1..n : r[i] = list[i]
            \/ /\ n > 0 /\ Len(r) = n /\ r[n].start = list[n].start /\ r[n].end = w.end
               /\ \A i \in 1..n - 1 : r[i] = list[i]
  <1> DEFINE r == Tp!Joined(list, w, until)
             n == Len(list)
             new == Tp!Began(w, until)
             more == [list[n] EXCEPT !.end = w.end, !.text = Append(@, Tp!Word(w))]
  <1>1. n \in Nat /\ DOMAIN list = 1..n /\ \A i \in 1..n : list[i] \in TpCandidate
    OBVIOUS
  <1>2. /\ w.start \in Nat /\ w.end \in Nat /\ w.speaker \in Speakers \cup {None} /\ w.wording \in Texts
        /\ w.overlap \in BOOLEAN
        /\ Tp!Word(w) \in Nat \X Nat \X Texts /\ Tp!Status(w, until) \in {"stable", "partial"}
    BY DEF TpWord, Tp!Word, Tp!Status
  <1>3. r = IF list # <<>> /\ Tp!Continues(Tp!Last(list), w, until)
            THEN Append(Tp!Front(list), [Tp!Last(list) EXCEPT !.end = w.end, !.text = Append(@, Tp!Word(w))])
            ELSE Append(list, new)
    BY DEF Tp!Joined
  <1>4. CASE list # <<>> /\ Tp!Continues(Tp!Last(list), w, until)
    <2>1. n > 0
      BY <1>1, <1>4
    <2>2. Tp!Front(list) = SubSeq(list, 1, n - 1) /\ Tp!Last(list) = list[n]
      BY DEF Tp!Front, Tp!Last
    <2>3. r = Append(SubSeq(list, 1, n - 1), more)
      BY <1>3, <1>4, <2>2
    <2>4. more \in TpCandidate /\ more.start = list[n].start /\ more.end = w.end
      <3>1. list[n] \in TpCandidate
        BY <1>1, <2>1
      <3>2. Append(list[n].text, Tp!Word(w)) \in Seq(Nat \X Nat \X Texts)
        BY <1>2, <3>1 DEF TpCandidate
      <3> QED
        BY <1>2, <3>1, <3>2 DEF TpCandidate
    <2> HIDE DEF more, r
    <2>5. /\ SubSeq(list, 1, n - 1) \in Seq(TpCandidate) /\ Len(SubSeq(list, 1, n - 1)) = n - 1
          /\ \A i \in 1..n - 1 : SubSeq(list, 1, n - 1)[i] = list[i]
      BY <1>1, <2>1
    <2>6. r \in Seq(TpCandidate) /\ Len(r) = n /\ r[n] = more /\ \A i \in 1..n - 1 : r[i] = list[i]
      <3> DEFINE p == SubSeq(list, 1, n - 1)
      <3>1. p \in Seq(TpCandidate) /\ Len(p) = n - 1 /\ r = Append(p, more) /\ more \in TpCandidate
        BY <2>3, <2>4, <2>5
      <3>2. \A i \in 1..n - 1 : p[i] = list[i]
        BY <2>5
      <3> HIDE DEF p
      <3>3. Append(p, more) \in Seq(TpCandidate) /\ Len(Append(p, more)) = Len(p) + 1
        BY <3>1
      <3>4. Append(p, more)[Len(p) + 1] = more /\ \A i \in 1..Len(p) : Append(p, more)[i] = p[i]
        BY <3>1
      <3> QED
        BY <1>1, <2>1, <3>1, <3>2, <3>3, <3>4
    <2> QED
      BY <2>1, <2>4, <2>6 DEF r
  <1>5. CASE ~(list # <<>> /\ Tp!Continues(Tp!Last(list), w, until))
    <2>1. r = Append(list, new)
      BY <1>3, <1>5
    <2>2. new \in TpCandidate /\ new.start = w.start /\ new.end = w.end
      <3>1. <<Tp!Word(w)>> \in Seq(Nat \X Nat \X Texts)
        BY <1>2
      <3> QED
        BY <1>2, <3>1 DEF Tp!Began, TpCandidate
    <2> HIDE DEF new, r
    <2>3. r \in Seq(TpCandidate) /\ Len(r) = n + 1 /\ r[n + 1] = new /\ \A i \in 1..n : r[i] = list[i]
      BY <1>1, <2>1, <2>2
    <2> QED
      BY <2>2, <2>3 DEF r
  <1> QED
    BY <1>4, <1>5

\* Candidates are the last value of a run over the words.
TpAssembles(w, n, until, t) ==
    /\ t \in [0..n -> Seq(TpCandidate)]
    /\ t[0] = <<>> /\ \A k \in 1..n : t[k] = Tp!Joined(t[k - 1], w[k], until)
    /\ Tp!Assembled(w, until) = t[n]

\* The candidates of a pass are such a run.
LEMMA TpAssembledRun ==
  ASSUME NEW n \in Nat, NEW w \in [1..n -> TpWord], NEW until
  PROVE  \E t : TpAssembles(w, n, until, t)
  <1> DEFINE R == Seq(TpCandidate)
             step == [i \in 1..n |-> [a \in R |-> Tp!Joined(a, w[i], until)]]
             Runs(f) == f = [s \in SUBSET DOMAIN w |->
                                IF s = {} THEN <<>> ELSE Tp!Joined(f[s \ {Greatest(s)}], w[Greatest(s)], until)]
  <1>1. DOMAIN w = 1..n /\ <<>> \in R /\ \A i \in 1..n : w[i] \in TpWord
    OBVIOUS
  <1>2. Tp!Assembled(w, until) = (CHOOSE f : Runs(f))[DOMAIN w]
    BY DEF Tp!Assembled, Tp!FoldLeft, Tp!MapThenFoldSet, Tp!Max, Greatest
  <1>3. step \in [1..n -> [R -> R]]
    <2>1. \A i \in 1..n : \A a \in R : Tp!Joined(a, w[i], until) \in R
      BY <1>1, TpJoined
    <2> HIDE DEF R
    <2> QED
      BY <2>1
  <1> HIDE DEF R
  <1>4. PICK g \in [SUBSET (1..n) -> R], t \in [0..n -> R] : RunsLeft(g, t, n, <<>>, step)
    <2> HIDE DEF step
    <2> QED
      BY <1>1, <1>3, FoldFromLeft
  <1>5. /\ \A s \in SUBSET (1..n) : g[s] = IF s = {} THEN <<>> ELSE step[Greatest(s)][g[s \ {Greatest(s)}]]
        /\ t[0] = <<>> /\ \A k \in 1..n : t[k] = step[k][t[k - 1]]
        /\ \A f : Agrees(f, g, n, Greatest) => f[1..n] = t[n]
    BY <1>4 DEF RunsLeft
  <1>6. \A s \in SUBSET (1..n) : s # {} => Greatest(s) \in 1..n /\ g[s \ {Greatest(s)}] \in R
    BY <1>4, GreatestIs
  <1>7. Runs(g)
    BY <1>1, <1>4, <1>5, <1>6
  <1>8. Runs(CHOOSE f : Runs(f))
    <2> HIDE DEF Runs
    <2> QED
      BY <1>7
  <1> DEFINE f == CHOOSE f : Runs(f)
  <1>9. Agrees(f, g, n, Greatest)
    <2> HIDE DEF f
    <2>1. \A s \in SUBSET (1..n) :
            f[s] = IF s = {} THEN <<>> ELSE Tp!Joined(f[s \ {Greatest(s)}], w[Greatest(s)], until)
      BY <1>1, <1>8 DEF f
    <2>2. \A s \in SUBSET (1..n) :
            g[s] = IF s = {} THEN <<>> ELSE Tp!Joined(g[s \ {Greatest(s)}], w[Greatest(s)], until)
      BY <1>1, <1>7
    <2> QED
      BY <2>1, <2>2 DEF Agrees
  <1>10. f[DOMAIN w] = t[n]
    <2> HIDE DEF f
    <2> QED
      BY <1>1, <1>5, <1>9
  <1>11. \A k \in 1..n : t[k] = Tp!Joined(t[k - 1], w[k], until)
    <2>1. \A k \in 1..n : k - 1 \in 0..n /\ t[k - 1] \in R
      BY <1>4
    <2> QED
      BY <1>5, <2>1
  <1> HIDE DEF f, step
  <1>12. TpAssembles(w, n, until, t)
    BY <1>2, <1>4, <1>5, <1>10, <1>11 DEF TpAssembles, R, f
  <1> QED
    BY <1>12

\* Candidates lie within the recording.
TpCandidates(c) ==
    /\ c \in Seq(TpCandidate)
    /\ \A i \in 1..Len(c) : c[i].start < c[i].end /\ c[i].end <= ScriptLength

\* Words within the recording, in the order of their starts, make such candidates: one that goes on
\* with a later word ends with it, after it began.
LEMMA TpFormed ==
  ASSUME NEW n \in Nat, NEW w, TpHeard(w, n), NEW until
  PROVE  TpCandidates(Tp!Assembled(w, until))
  <1>1. /\ w \in [1..n -> TpWord]
        /\ \A i \in 1..n : w[i].start < w[i].end /\ w[i].end <= ScriptLength
        /\ \A i, j \in 1..n : i < j => w[i].start <= w[j].start
        /\ \A i \in 1..n : w[i] \in TpWord /\ w[i].start \in Nat /\ w[i].end \in Nat
        /\ ScriptLength \in Nat
    BY PublishingAssumption DEF TpHeard, TpWord
  <1>2. PICK t : TpAssembles(w, n, until, t)
    BY <1>1, TpAssembledRun
  <1>3. /\ t \in [0..n -> Seq(TpCandidate)]
        /\ t[0] = <<>> /\ \A k \in 1..n : t[k] = Tp!Joined(t[k - 1], w[k], until)
        /\ Tp!Assembled(w, until) = t[n]
    BY <1>2 DEF TpAssembles
  <1> DEFINE Fine(k) == TpCandidates(t[k]) /\ (Len(t[k]) > 0 => k > 0 /\ t[k][Len(t[k])].start <= w[k].start)
             fine == {k \in 0..n : Fine(k)}
  <1>4. 0 \in fine
    <2>1. Len(t[0]) = 0 /\ t[0] \in Seq(TpCandidate)
      BY <1>3
    <2> QED
      BY <2>1 DEF TpCandidates
  <1>5. ASSUME NEW k \in 0..n, k < n, k \in fine PROVE k + 1 \in fine
    <2> DEFINE a == t[k]
               b == t[k + 1]
               m == Len(a)
               v == w[k + 1]
    <2>0. k \in 0..n /\ k + 1 \in 1..n /\ k + 1 \in 0..n /\ (k + 1) - 1 = k /\ (k > 0 => k \in 1..n /\ k < k + 1)
      BY <1>5
    <2>1. a \in Seq(TpCandidate) /\ v \in TpWord /\ b = Tp!Joined(a, v, until)
      <3>1. t[k] \in Seq(TpCandidate) /\ w[k + 1] \in TpWord
        BY <1>1, <1>3, <2>0
      <3>2. t[k + 1] = Tp!Joined(t[(k + 1) - 1], w[k + 1], until)
        BY <1>3, <2>0
      <3> QED
        BY <2>0, <3>1, <3>2
    <2>2. m \in Nat /\ \A i \in 1..m : a[i] \in TpCandidate /\ a[i].start \in Nat /\ a[i].end \in Nat
      <3> HIDE DEF a
      <3>1. m \in Nat /\ \A i \in 1..m : a[i] \in TpCandidate
        BY <2>1
      <3> HIDE DEF m
      <3> QED
        BY <3>1 DEF TpCandidate
    <2>3. /\ TpCandidates(a) /\ (m > 0 => a[m].start <= v.start)
          /\ v.start < v.end /\ v.end <= ScriptLength /\ v.start \in Nat /\ v.end \in Nat
      <3>1. Fine(k)
        BY <1>5
      <3>2. TpCandidates(a) /\ (m > 0 => k > 0 /\ a[m].start <= w[k].start)
        BY <3>1
      <3>3. v.start < v.end /\ v.end <= ScriptLength /\ v.start \in Nat /\ v.end \in Nat
        BY <1>1, <2>0
      <3>4. k > 0 => w[k].start <= v.start /\ w[k].start \in Nat
        BY <1>1, <2>0
      <3>5. m > 0 => m \in 1..m
        BY <2>2
      <3> HIDE DEF a, m, v
      <3> QED
        BY <2>2, <3>2, <3>3, <3>4, <3>5
    <2>4. /\ b \in Seq(TpCandidate)
          /\ \/ /\ Len(b) = m + 1 /\ b[m + 1].start = v.start /\ b[m + 1].end = v.end
                /\ \A i \in 1..m : b[i] = a[i]
             \/ /\ m > 0 /\ Len(b) = m /\ b[m].start = a[m].start /\ b[m].end = v.end
                /\ \A i \in 1..m - 1 : b[i] = a[i]
      <3> HIDE DEF a, b, v
      <3> QED
        BY <2>1, TpJoined
    <2>5. \A i \in 1..m : a[i].start < a[i].end /\ a[i].end <= ScriptLength
      BY <2>3 DEF TpCandidates
    <2> HIDE DEF a, b, m, v
    <2>6. CASE /\ Len(b) = m + 1 /\ b[m + 1].start = v.start /\ b[m + 1].end = v.end
               /\ \A i \in 1..m : b[i] = a[i]
      <3>1. \A i \in 1..m + 1 : i \in 1..m \/ i = m + 1
        BY <2>2
      <3>2. \A i \in 1..m + 1 : b[i].start < b[i].end /\ b[i].end <= ScriptLength
        BY <2>3, <2>5, <2>6, <3>1
      <3>3. TpCandidates(b) /\ b[Len(b)].start <= v.start
        BY <2>3, <2>4, <2>6, <3>2 DEF TpCandidates
      <3> QED
        BY <1>5, <2>0, <3>3 DEF b, v
    <2>7. CASE /\ m > 0 /\ Len(b) = m /\ b[m].start = a[m].start /\ b[m].end = v.end
               /\ \A i \in 1..m - 1 : b[i] = a[i]
      <3>1. \A i \in 1..m : i \in 1..m - 1 \/ i = m
        BY <2>2
      <3>2. m \in 1..m
        BY <2>2, <2>7
      <3>3. b[m].start < b[m].end /\ b[m].end <= ScriptLength /\ b[m].start <= v.start
        BY <2>2, <2>3, <2>7, <3>2
      <3>4. \A i \in 1..m - 1 : b[i].start < b[i].end /\ b[i].end <= ScriptLength
        <4>1. \A i \in 1..m - 1 : i \in 1..m
          BY <2>2
        <4> QED
          BY <2>5, <2>7, <4>1
      <3>5. TpCandidates(b) /\ b[Len(b)].start <= v.start
        BY <2>4, <2>7, <3>1, <3>3, <3>4 DEF TpCandidates
      <3> QED
        BY <1>5, <2>0, <3>5 DEF b, v
    <2> QED
      BY <2>4, <2>6, <2>7
  <1>6. n \in fine
    <2> HIDE DEF fine
    <2>1. \A k \in 0..n : k \in fine
      BY <1>4, <1>5, Counting
    <2> QED
      BY <2>1
  <1> QED
    BY <1>3, <1>6

-----------------------------------------------------------------------------
(* TranscriptPublishing: fit                                               *)

\* A row of the transcript, whose text may be anything.
TpRow(u) ==
    /\ u = [id |-> u.id, revision |-> u.revision, start |-> u.start, end |-> u.end, text |-> u.text,
            speaker |-> u.speaker, overlap |-> u.overlap, status |-> u.status, manual |-> u.manual]
    /\ u.id \in Nat /\ u.revision \in Nat \ {0} /\ u.start \in Nat /\ u.end \in Nat
    /\ u.start < u.end /\ u.end <= ScriptLength
    /\ u.speaker \in Speakers \cup {None} /\ u.manual \subseteq {"text", "speaker"} /\ u.overlap \in BOOLEAN
    /\ u.status \in {"partial", "stable", "corrected", "retracted"}

\* The rows of a session: told apart by their ids.
TpRows(rows, next) ==
    /\ next \in Nat /\ \E n \in Nat : DOMAIN rows = 1..n
    /\ \A i \in DOMAIN rows : TpRow(rows[i]) /\ rows[i].id < next /\ rows[i].status # "retracted"
    /\ \A i, j \in DOMAIN rows : i # j => rows[i].id # rows[j].id

\* A fitted candidate, and the row it keeps the id of.
TpNew == [id : Nat, revision : Nat, start : Nat, end : Nat, text : Seq(Nat \X Nat \X Texts),
          speaker : Speakers \cup {None}, overlap : BOOLEAN, status : {"stable", "partial"}, manual : {{}}]
TpKeeps(v, u) == v.id = u.id /\ (v = u \/ v.revision = u.revision + 1)
TpFit(f, c, r) ==
    \/ Tp!Taken(c) /\ r = f
    \/ /\ ~Tp!Taken(c)
       /\ \E v \in TpNew :
              /\ v.start = c.start /\ v.end = c.end /\ v.revision > 0
              /\ r.output = f.output \cup {v} /\ r.used = f.used \cup {v.id}
              /\ \/ /\ r.nextUtterance = f.nextUtterance
                    /\ \E u \in Tp!ToSet(utterances) : ~Tp!Manual(u) /\ u.id \notin f.used /\ TpKeeps(v, u)
                 \/ r.nextUtterance = f.nextUtterance + 1 /\ v.id = f.nextUtterance
TpFits == [output : SUBSET TpNew, used : SUBSET Nat, nextUtterance : Nat]

\* One candidate is left out, keeps the id of a row that is still free, or has a new id.
LEMMA TpFitted ==
  ASSUME TpRows(utterances, nextUtterance), NEW f \in TpFits, NEW c \in TpCandidate
  PROVE  Tp!Fit(f, c) \in TpFits /\ TpFit(f, c, Tp!Fit(f, c))
  <1> DEFINE free == Tp!Matches(c, f.used)
             m == Tp!Min(free)
             kept == Tp!Renewed(c, utterances[m])
             fresh == [c EXCEPT !.id = f.nextUtterance]
             v == IF free # {} THEN kept ELSE fresh
             r == [output |-> f.output \cup {v}, used |-> f.used \cup {v.id},
                   nextUtterance |-> IF free # {} THEN f.nextUtterance ELSE f.nextUtterance + 1]
  <1>1. Tp!Fit(f, c) = IF Tp!Taken(c) THEN f ELSE r
    BY DEF Tp!Fit
  <1>2. f.output \subseteq TpNew /\ f.used \subseteq Nat /\ f.nextUtterance \in Nat
    BY DEF TpFits
  <1>3. ASSUME free = {} PROVE fresh \in TpNew /\ fresh.start = c.start /\ fresh.end = c.end /\ fresh.revision > 0
                               /\ fresh.id = f.nextUtterance
    <2>1. f.nextUtterance \in Nat /\ c.revision = 1 /\ c.revision \in Nat
      BY <1>2 DEF TpCandidate
    <2>2. fresh \in TpNew
      BY <2>1 DEF TpCandidate, TpNew
    <2>3. fresh.start = c.start /\ fresh.end = c.end /\ fresh.revision = c.revision /\ fresh.id = f.nextUtterance
      BY DEF TpCandidate
    <2> QED
      BY <2>1, <2>2, <2>3
  <1>4. ASSUME free # {}
        PROVE  /\ kept \in TpNew /\ kept.start = c.start /\ kept.end = c.end /\ kept.revision > 0
               /\ \E u \in Tp!ToSet(utterances) : ~Tp!Manual(u) /\ u.id \notin f.used /\ TpKeeps(kept, u)
    <2>1. PICK n \in Nat : DOMAIN utterances = 1..n
      BY DEF TpRows
    <2>2. free \in SUBSET (1..n)
      BY <2>1 DEF Tp!Matches
    <2>3. m = Smallest(free)
      BY DEF Tp!Min, Smallest
    <2>4. m \in free
      <3> HIDE DEF free, m
      <3> QED
        BY <1>4, <2>2, <2>3, SmallestIs
    <2> DEFINE u == utterances[m]
    <2>5. m \in DOMAIN utterances /\ u.id \notin f.used /\ ~Tp!Manual(u)
      BY <2>4 DEF Tp!Matches
    <2>6. u \in Tp!ToSet(utterances) /\ TpRow(u)
      BY <2>5 DEF TpRows, Tp!ToSet
    <2> DEFINE same == [c EXCEPT !.id = u.id, !.revision = u.revision]
               more == [same EXCEPT !.revision = @ + 1]
    <2>7. kept = IF same = u THEN u ELSE more
      BY DEF Tp!Renewed
    <2> HIDE DEF free, m, u, kept
    <2>8. u.id \in Nat /\ u.revision \in Nat \ {0}
      BY <2>6 DEF TpRow
    <2>9. same \in TpNew /\ same.start = c.start /\ same.end = c.end /\ same.id = u.id /\ same.revision = u.revision
      BY <2>8 DEF TpCandidate, TpNew
    <2>10. more \in TpNew /\ more.start = c.start /\ more.end = c.end /\ more.id = u.id /\ more.revision = u.revision + 1
      <3>1. more = [same EXCEPT !.revision = same.revision + 1]
        OBVIOUS
      <3> HIDE DEF same, more
      <3>2. same.revision + 1 \in Nat /\ same \in TpNew
        BY <2>8, <2>9
      <3>3. more \in TpNew
        BY <3>1, <3>2 DEF TpNew
      <3>4. more.start = same.start /\ more.end = same.end /\ more.id = same.id /\ more.revision = same.revision + 1
        BY <3>1, <3>2 DEF TpNew
      <3> QED
        BY <2>9, <3>3, <3>4
    <2> HIDE DEF same, more
    <2>11. /\ kept \in TpNew /\ kept.start = c.start /\ kept.end = c.end /\ kept.revision > 0
           /\ kept.id = u.id /\ (kept = u \/ kept.revision = u.revision + 1)
      BY <2>7, <2>8, <2>9, <2>10
    <2> QED
      BY <2>5, <2>6, <2>11 DEF TpKeeps, u
  <1> HIDE DEF free, kept, fresh
  <1>5. v \in TpNew /\ v.start = c.start /\ v.end = c.end /\ v.revision > 0
    BY <1>3, <1>4
  <1>6. free # {} => \E u \in Tp!ToSet(utterances) : ~Tp!Manual(u) /\ u.id \notin f.used /\ TpKeeps(v, u)
    BY <1>4
  <1>7. free = {} => v.id = f.nextUtterance
    BY <1>3
  <1> HIDE DEF v
  <1>8. v.id \in Nat
    BY <1>5 DEF TpNew
  <1>9. r \in TpFits
    BY <1>2, <1>5, <1>8 DEF TpFits
  <1>10. /\ r.output = f.output \cup {v} /\ r.used = f.used \cup {v.id}
         /\ (free # {} => r.nextUtterance = f.nextUtterance)
         /\ (free = {} => r.nextUtterance = f.nextUtterance + 1)
    OBVIOUS
  <1> HIDE DEF r
  <1>11. ~Tp!Taken(c) => TpFit(f, c, r)
    BY <1>5, <1>6, <1>7, <1>10 DEF TpFit
  <1> QED
    BY <1>1, <1>9, <1>11 DEF TpFit

\* The fitted candidates are the last value of a run over the candidates.
TpFitRun(c, n, t) ==
    /\ t \in [0..n -> TpFits]
    /\ t[0] = [output |-> {}, used |-> {}, nextUtterance |-> nextUtterance]
    /\ \A k \in 1..n : t[k] = Tp!Fit(t[k - 1], c[k])
    /\ Tp!Fitted(c) = t[n]

\* Fitting is such a run.
LEMMA TpFitsRun ==
  ASSUME TpRows(utterances, nextUtterance), NEW n \in Nat, NEW c \in [1..n -> TpCandidate]
  PROVE  \E t : TpFitRun(c, n, t)
  <1> DEFINE R == TpFits
             base == [output |-> {}, used |-> {}, nextUtterance |-> nextUtterance]
             step == [i \in 1..n |-> [a \in R |-> Tp!Fit(a, c[i])]]
             Runs(f) == f = [s \in SUBSET DOMAIN c |->
                                IF s = {} THEN base ELSE Tp!Fit(f[s \ {Greatest(s)}], c[Greatest(s)])]
  <1>1. DOMAIN c = 1..n /\ base \in R /\ \A i \in 1..n : c[i] \in TpCandidate
    BY DEF TpRows, TpFits
  <1>2. Tp!Fitted(c) = (CHOOSE f : Runs(f))[DOMAIN c]
    BY DEF Tp!Fitted, Tp!FoldLeft, Tp!MapThenFoldSet, Tp!Max, Greatest
  <1> HIDE DEF base
  <1>3. step \in [1..n -> [R -> R]]
    <2>1. \A i \in 1..n : \A a \in R : Tp!Fit(a, c[i]) \in R
      BY <1>1, TpFitted
    <2> HIDE DEF R
    <2> QED
      BY <2>1
  <1> HIDE DEF R
  <1>4. PICK g \in [SUBSET (1..n) -> R], t \in [0..n -> R] : RunsLeft(g, t, n, base, step)
    <2> HIDE DEF step
    <2> QED
      BY <1>1, <1>3, FoldFromLeft
  <1>5. /\ \A s \in SUBSET (1..n) : g[s] = IF s = {} THEN base ELSE step[Greatest(s)][g[s \ {Greatest(s)}]]
        /\ t[0] = base /\ \A k \in 1..n : t[k] = step[k][t[k - 1]]
        /\ \A f : Agrees(f, g, n, Greatest) => f[1..n] = t[n]
    BY <1>4 DEF RunsLeft
  <1>6. \A s \in SUBSET (1..n) : s # {} => Greatest(s) \in 1..n /\ g[s \ {Greatest(s)}] \in R
    BY <1>4, GreatestIs
  <1>7. Runs(g)
    BY <1>1, <1>4, <1>5, <1>6
  <1>8. Runs(CHOOSE f : Runs(f))
    <2> HIDE DEF Runs
    <2> QED
      BY <1>7
  <1> DEFINE f == CHOOSE f : Runs(f)
  <1>9. Agrees(f, g, n, Greatest)
    <2> HIDE DEF f
    <2>1. \A s \in SUBSET (1..n) :
            f[s] = IF s = {} THEN base ELSE Tp!Fit(f[s \ {Greatest(s)}], c[Greatest(s)])
      BY <1>1, <1>8 DEF f
    <2>2. \A s \in SUBSET (1..n) :
            g[s] = IF s = {} THEN base ELSE Tp!Fit(g[s \ {Greatest(s)}], c[Greatest(s)])
      BY <1>1, <1>7
    <2> QED
      BY <2>1, <2>2 DEF Agrees
  <1>10. f[DOMAIN c] = t[n]
    <2> HIDE DEF f
    <2> QED
      BY <1>1, <1>5, <1>9
  <1>11. \A k \in 1..n : t[k] = Tp!Fit(t[k - 1], c[k])
    <2>1. \A k \in 1..n : k - 1 \in 0..n /\ t[k - 1] \in R
      BY <1>4
    <2> QED
      BY <1>5, <2>1
  <1> HIDE DEF f, step
  <1>12. TpFitRun(c, n, t)
    BY <1>2, <1>4, <1>5, <1>10, <1>11 DEF TpFitRun, R, f, base
  <1> QED
    BY <1>12

\* What the candidates up to k are fitted to: rows that are told apart by their ids, each with the
\* times of a candidate, and the id of a row that was not corrected or a new one.
TpMade(v, c, k) == \E i \in 1..k : v.start = c[i].start /\ v.end = c[i].end /\ ~Tp!Taken(c[i])
TpStems(v) == \E u \in Tp!ToSet(utterances) : ~Tp!Manual(u) /\ TpKeeps(v, u)
TpFitsUp(f, c, k) ==
    /\ f \in TpFits /\ f.nextUtterance >= nextUtterance /\ IsFiniteSet(f.output)
    /\ f.used = {v.id : v \in f.output}
    /\ \A v \in f.output : /\ TpMade(v, c, k) /\ v.revision > 0 /\ v.id < f.nextUtterance
                           /\ (v.id >= nextUtterance \/ TpStems(v))
    /\ \A v, w \in f.output : v # w => v.id # w.id

\* Fitting the next candidate keeps this.
LEMMA TpFitsOn ==
  ASSUME TpRows(utterances, nextUtterance), NEW c, TpCandidates(c), NEW k \in Nat, k + 1 \in 1..Len(c),
         NEW f, TpFitsUp(f, c, k)
  PROVE  TpFitsUp(Tp!Fit(f, c[k + 1]), c, k + 1)
  <1> DEFINE r == Tp!Fit(f, c[k + 1])
  <1>1. /\ f \in TpFits /\ f.nextUtterance \in Nat /\ nextUtterance \in Nat /\ f.output \subseteq TpNew
        /\ f.nextUtterance >= nextUtterance /\ c[k + 1] \in TpCandidate
    BY DEF TpFitsUp, TpFits, TpRows, TpCandidates
  <1>2. r \in TpFits /\ TpFit(f, c[k + 1], r)
    BY <1>1, TpFitted
  <1>3. \A v : TpMade(v, c, k) => TpMade(v, c, k + 1)
    <2>1. \A i \in 1..k : i \in 1..k + 1
      OBVIOUS
    <2> QED
      BY <2>1 DEF TpMade
  <1> HIDE DEF r
  <1>4. CASE Tp!Taken(c[k + 1]) /\ r = f
    BY <1>3, <1>4 DEF TpFitsUp, r
  <1>5. CASE ~Tp!Taken(c[k + 1]) /\ r # f
    <2>1. PICK v \in TpNew :
              /\ v.start = c[k + 1].start /\ v.end = c[k + 1].end /\ v.revision > 0
              /\ r.output = f.output \cup {v} /\ r.used = f.used \cup {v.id}
              /\ \/ /\ r.nextUtterance = f.nextUtterance
                    /\ \E u \in Tp!ToSet(utterances) : ~Tp!Manual(u) /\ u.id \notin f.used /\ TpKeeps(v, u)
                 \/ r.nextUtterance = f.nextUtterance + 1 /\ v.id = f.nextUtterance
      BY <1>2, <1>5 DEF TpFit
    <2>2. r.nextUtterance \in Nat /\ r.nextUtterance >= f.nextUtterance /\ v.id \in Nat
      BY <1>1, <2>1 DEF TpNew
    <2>3. /\ f.used = {w.id : w \in f.output} /\ IsFiniteSet(f.output)
          /\ \A w \in f.output : /\ TpMade(w, c, k) /\ w.revision > 0 /\ w.id < f.nextUtterance /\ w.id \in Nat
                                 /\ (w.id >= nextUtterance \/ TpStems(w))
      BY <1>1 DEF TpFitsUp, TpNew
    <2>4. v.id < r.nextUtterance /\ (v.id >= nextUtterance \/ TpStems(v)) /\ v.id \notin f.used
      <3>1. CASE /\ r.nextUtterance = f.nextUtterance
                 /\ \E u \in Tp!ToSet(utterances) : ~Tp!Manual(u) /\ u.id \notin f.used /\ TpKeeps(v, u)
        <4>1. PICK u \in Tp!ToSet(utterances) : ~Tp!Manual(u) /\ u.id \notin f.used /\ TpKeeps(v, u)
          BY <3>1
        <4>2. v.id = u.id /\ TpStems(v)
          BY <4>1 DEF TpKeeps, TpStems
        <4>3. u.id < nextUtterance
          BY DEF TpRows, Tp!ToSet
        <4> QED
          BY <1>1, <2>2, <3>1, <4>1, <4>2, <4>3
      <3>2. CASE r.nextUtterance = f.nextUtterance + 1 /\ v.id = f.nextUtterance
        BY <1>1, <2>3, <3>2
      <3> QED
        BY <2>1, <3>1, <3>2
    <2>5. TpMade(v, c, k + 1)
      BY <1>5, <2>1 DEF TpMade
    <2>6. \A w \in f.output : v.id # w.id
      BY <2>3, <2>4
    <2>7. IsFiniteSet(r.output)
      BY <2>1, <2>3, FS_AddElement
    <2>8. r.used = {w.id : w \in r.output}
      BY <2>1, <2>3
    <2>9. \A w \in r.output : /\ TpMade(w, c, k + 1) /\ w.revision > 0 /\ w.id < r.nextUtterance
                              /\ (w.id >= nextUtterance \/ TpStems(w))
      <3>1. \A w \in f.output : w.id < r.nextUtterance
        BY <1>1, <2>2, <2>3
      <3> QED
        BY <1>3, <2>1, <2>3, <2>4, <2>5, <3>1
    <2>10. \A w, x \in r.output : w # x => w.id # x.id
      <3>1. \A w, x \in f.output : w # x => w.id # x.id
        BY DEF TpFitsUp
      <3> QED
        BY <2>1, <2>6, <3>1
    <2> QED
      BY <1>1, <1>2, <2>2, <2>7, <2>8, <2>9, <2>10 DEF TpFitsUp, r
  <1>6. CASE ~Tp!Taken(c[k + 1]) /\ r = f
    BY <1>3, <1>6 DEF TpFitsUp, r
  <1> QED
    BY <1>2, <1>4, <1>5, <1>6 DEF TpFit

\* What the candidates of a pass are fitted to.
LEMMA TpAllFit ==
  ASSUME TpRows(utterances, nextUtterance), NEW c, TpCandidates(c)
  PROVE  TpFitsUp(Tp!Fitted(c), c, Len(c))
  <1> DEFINE n == Len(c)
  <1>1. n \in Nat /\ c \in [1..n -> TpCandidate]
    BY DEF TpCandidates
  <1> HIDE DEF n
  <1>2. PICK t : TpFitRun(c, n, t)
    BY <1>1, TpFitsRun
  <1>3. /\ t \in [0..n -> TpFits]
        /\ t[0] = [output |-> {}, used |-> {}, nextUtterance |-> nextUtterance]
        /\ \A k \in 1..n : t[k] = Tp!Fit(t[k - 1], c[k])
        /\ Tp!Fitted(c) = t[n]
    BY <1>2 DEF TpFitRun
  <1> DEFINE fine == {k \in 0..n : TpFitsUp(t[k], c, k)}
  <1>4. 0 \in fine
    <2>1. /\ t[0].output = {} /\ t[0].used = {} /\ t[0].nextUtterance = nextUtterance /\ nextUtterance \in Nat
          /\ IsFiniteSet(t[0].output) /\ 0 \in 0..n /\ t[0] \in TpFits
      <3>1. 0 \in 0..n /\ nextUtterance \in Nat
        BY <1>1 DEF TpRows
      <3>2. t[0] \in TpFits
        BY <1>3, <3>1
      <3>3. t[0].output = {} /\ t[0].used = {} /\ t[0].nextUtterance = nextUtterance
        BY <1>3
      <3>4. IsFiniteSet({})
        BY FS_EmptySet
      <3> QED
        BY <3>1, <3>2, <3>3, <3>4
    <2> QED
      BY <2>1 DEF TpFitsUp
  <1>5. ASSUME NEW k \in 0..n, k < n, k \in fine PROVE k + 1 \in fine
    <2>1. k \in Nat /\ k + 1 \in 1..n /\ (k + 1) - 1 = k /\ TpFitsUp(t[k], c, k)
      BY <1>1, <1>5
    <2>2. t[k + 1] = Tp!Fit(t[(k + 1) - 1], c[k + 1])
      BY <1>3, <2>1
    <2>3. TpFitsUp(Tp!Fit(t[k], c[k + 1]), c, k + 1)
      BY <2>1, TpFitsOn DEF n
    <2> QED
      BY <2>1, <2>2, <2>3
  <1>6. n \in fine
    <2> HIDE DEF fine
    <2>1. \A k \in 0..n : k \in fine
      BY <1>1, <1>4, <1>5, Counting
    <2> QED
      BY <1>1, <2>1
  <1> QED
    BY <1>3, <1>6 DEF n

-----------------------------------------------------------------------------
(* TranscriptPublishing: publish                                           *)

\* The instance counts as the module FiniteSets does.
LEMMA TpCardinality == ASSUME NEW S PROVE Tp!Cardinality(S) = Cardinality(S)
  BY DEF Tp!Cardinality, Cardinality

\* A corrected row takes its times and what was corrected over.
TpTakesOver(v, u) ==
    /\ TpRow(v) /\ TpKeeps(v, u) /\ v.start = u.start /\ v.end = u.end
    /\ v.manual = u.manual /\ v.status = u.status
    /\ ("text" \in u.manual => v.text = u.text) /\ ("speaker" \in u.manual => v.speaker = u.speaker)

\* Refreshing a corrected row with what was heard takes over what it must.
LEMMA TpRefreshes ==
  ASSUME NEW u, TpRow(u), NEW c, TpCandidates(c)
  PROVE  TpTakesOver(Tp!Refreshed(u, c), u)
  <1> DEFINE related == Tp!Related(u, c)
             voices == {c[i].speaker : i \in related}
             said == IF "text" \in u.manual THEN u.text ELSE Tp!Said(c, related)
             voice == IF "speaker" \in u.manual THEN u.speaker
                      ELSE IF Tp!Cardinality(voices) = 1 THEN CHOOSE s \in voices : TRUE ELSE None
             loud == \E i \in related : c[i].overlap
             r == [u EXCEPT !.text = said, !.speaker = voice, !.overlap = loud]
             more == [r EXCEPT !.revision = @ + 1]
  <1>1. Tp!Refreshed(u, c) = IF related = {} \/ r = u THEN u ELSE more
    BY DEF Tp!Refreshed
  <1>2. TpTakesOver(u, u)
    BY DEF TpTakesOver, TpKeeps
  <1>3. ASSUME related # {} PROVE voice \in Speakers \cup {None}
    <2>1. \A i \in related : c[i].speaker \in Speakers \cup {None}
      <3>1. \A i \in DOMAIN c : c[i] \in TpCandidate
        BY DEF TpCandidates
      <3> QED
        BY <3>1 DEF Tp!Related, TpCandidate
    <2>2. voices # {} /\ voices \subseteq Speakers \cup {None}
      BY <1>3, <2>1
    <2> HIDE DEF voices
    <2>3. (CHOOSE s \in voices : TRUE) \in voices
      BY <2>2
    <2>4. u.speaker \in Speakers \cup {None}
      BY DEF TpRow
    <2> QED
      BY <2>2, <2>3, <2>4
  <1>4. ASSUME related # {} PROVE TpTakesOver(more, u)
    <2> HIDE DEF related, voices
    <2>1. "text" \in u.manual => said = u.text
      OBVIOUS
    <2>2. "speaker" \in u.manual => voice = u.speaker
      OBVIOUS
    <2>3. voice \in Speakers \cup {None}
      BY <1>3, <1>4
    <2>3a. loud \in BOOLEAN
      OBVIOUS
    <2> HIDE DEF said, voice, loud
    <2>4. u.revision \in Nat \ {0} /\ u.revision + 1 \in Nat \ {0}
      BY DEF TpRow
    <2> DEFINE Row(n, text, speaker, overlap) ==
                   [id |-> u.id, revision |-> n, start |-> u.start, end |-> u.end, text |-> text,
                    speaker |-> speaker, overlap |-> overlap, status |-> u.status, manual |-> u.manual]
    <2>5. more = Row(u.revision + 1, said, voice, loud)
      <3> DEFINE x0 == Row(u.revision, u.text, u.speaker, u.overlap)
                 x1 == Row(u.revision, said, u.speaker, u.overlap)
                 x2 == Row(u.revision, said, voice, u.overlap)
                 x3 == Row(u.revision, said, voice, loud)
      <3>1. u = x0
        BY DEF TpRow
      <3>2. [x0 EXCEPT !.text = said] = x1
        OBVIOUS
      <3>3. [x1 EXCEPT !.speaker = voice] = x2
        OBVIOUS
      <3>4. [x2 EXCEPT !.overlap = loud] = x3
        OBVIOUS
      <3>5. [x3 EXCEPT !.revision = x3.revision + 1] = Row(u.revision + 1, said, voice, loud)
        OBVIOUS
      <3> HIDE DEF x0, x1, x2, x3, Row
      <3>6. r = [[[x0 EXCEPT !.text = said] EXCEPT !.speaker = voice] EXCEPT !.overlap = loud]
        BY <3>1
      <3>7. r = x3
        BY <3>2, <3>3, <3>4, <3>6
      <3> HIDE DEF r
      <3> QED
        BY <3>5, <3>7
    <2> HIDE DEF more
    <2>6. /\ more.id = u.id /\ more.revision = u.revision + 1 /\ more.start = u.start /\ more.end = u.end
          /\ more.text = said /\ more.speaker = voice /\ more.overlap = loud
          /\ more.status = u.status /\ more.manual = u.manual
      BY <2>5
    <2>7. TpRow(more)
      BY <2>3, <2>3a, <2>4, <2>5, <2>6 DEF TpRow
    <2> QED
      BY <2>1, <2>2, <2>6, <2>7 DEF TpTakesOver, TpKeeps
  <1> HIDE DEF related, r, more
  <1> QED
    BY <1>1, <1>2, <1>4

\* The rows of a finite set in order are just those, each at one place.
LEMMA TpInOrder ==
  ASSUME NEW S, IsFiniteSet(S), NEW list \in Tp!InOrder(S)
  PROVE  /\ \E n \in Nat : DOMAIN list = 1..n
         /\ Tp!ToSet(list) = S
         /\ \A i, j \in DOMAIN list : i # j => list[i] # list[j]
  <1> DEFINE n == Cardinality(S)
  <1>1. n \in Nat /\ IsFiniteSet(1..n) /\ Cardinality(1..n) = n
    <2>1. n \in Nat
      BY FS_CardinalityType
    <2> HIDE DEF n
    <2> QED
      BY <2>1, FS_Interval
  <1>2. list \in [1..n -> S] /\ \A i, j \in 1..n : i # j => list[i] # list[j]
    BY TpCardinality DEF Tp!InOrder, Tp!SetToSeqs
  <1> HIDE DEF n
  <1>3. list \in Injection(1..n, S)
    BY <1>2 DEF Injection, IsInjective
  <1>4. list \in Surjection(1..n, S)
    BY <1>1, <1>3, FS_Injection DEF n
  <1>5. \A s \in S : \E i \in 1..n : list[i] = s
    BY <1>4 DEF Surjection
  <1> QED
    BY <1>1, <1>2, <1>5 DEF Tp!ToSet

\* The rows of a session as a set: each has its own id.
LEMMA TpSet ==
  ASSUME NEW list, NEW next, TpRows(list, next)
  PROVE  /\ next \in Nat
         /\ \A u \in Tp!ToSet(list) : TpRow(u) /\ u.id \in Nat /\ u.id < next /\ u.status # "retracted"
         /\ \A u, v \in Tp!ToSet(list) : u # v => u.id # v.id
  <1>1. \A i \in DOMAIN list : TpRow(list[i]) /\ list[i].id \in Nat /\ list[i].id < next /\ list[i].status # "retracted"
    BY DEF TpRows, TpRow
  <1>2. \A i, j \in DOMAIN list : list[i] # list[j] => list[i].id # list[j].id
    BY DEF TpRows
  <1>3. next \in Nat
    BY DEF TpRows
  <1> QED
    BY <1>1, <1>2, <1>3 DEF Tp!ToSet

\* How the rows of a session go on: one keeps the id of an old one, with a new revision if it is
\* another, or has a new id; and the old ones whose ids are gone are withdrawn.
TpOld == Tp!ToSet(utterances)
TpGone(new) == {u \in TpOld : u.id \notin Tp!Ids(new)}
TpGoesOn(new, next, withdrawn) ==
    /\ TpRows(new, next) /\ next >= nextUtterance
    /\ \A v \in Tp!ToSet(new) : v.id >= nextUtterance \/ \E u \in TpOld : TpKeeps(v, u)
    /\ withdrawn = {Tp!Retracted(u) : u \in TpGone(new)}

\* The ids of a list are those of its rows.
LEMMA TpIds == \A list : Tp!Ids(list) = {v.id : v \in Tp!ToSet(list)}
  BY DEF Tp!Ids, Tp!ToSet

\* What a pass publishes goes on so, a corrected row is taken over, and its time is left to it.
TpLeft(rows) == \A u, v \in Tp!ToSet(rows) : Tp!Manual(u) /\ ~Tp!Manual(v) => ~Tp!Meets(u, v)
TpPublished(withdrawn) ==
    /\ TpGoesOn(utterances', nextUtterance', withdrawn)
    /\ events' = Tp!Recorded((Tp!ToSet(utterances') \ TpOld) \cup withdrawn)
    /\ \A u \in TpOld : Tp!Manual(u) => \E v \in Tp!ToSet(utterances') : TpTakesOver(v, u)
    /\ TpLeft(utterances')

\* Publishing what was heard is such a step.
LEMMA TpPublishes ==
  ASSUME TpRows(utterances, nextUtterance), NEW n \in Nat, NEW w, TpHeard(w, n), NEW until,
         Tp!Publish(w, until)
  PROVE  \E withdrawn : TpPublished(withdrawn)
  <1> DEFINE c == Tp!Assembled(w, until)
             F == Tp!Fitted(c)
             manual == {v \in TpOld : Tp!Manual(v)}
             over == {Tp!Refreshed(u, c) : u \in manual}
             S == F.output \cup over
             withdrawn == {Tp!Retracted(u) : u \in {v \in TpOld : ~Tp!Manual(v) /\ v.id \notin F.used}}
  <1>1. /\ utterances' \in Tp!InOrder(S) /\ nextUtterance' = F.nextUtterance
        /\ events' = Tp!Recorded((S \ TpOld) \cup withdrawn)
    BY DEF Tp!Publish, TpOld
  <1>2. TpCandidates(c)
    BY TpFormed
  <1> HIDE DEF c
  <1>3. TpFitsUp(F, c, Len(c))
    BY <1>2, TpAllFit
  <1> HIDE DEF F
  <1>4. /\ nextUtterance \in Nat
        /\ \A u \in TpOld : TpRow(u) /\ u.id \in Nat /\ u.id < nextUtterance /\ u.status # "retracted"
        /\ \A u, v \in TpOld : u # v => u.id # v.id
    BY TpSet DEF TpOld
  <1>5. \A u \in manual : TpTakesOver(Tp!Refreshed(u, c), u)
    BY <1>2, <1>4, TpRefreshes
  <1>6. /\ F.nextUtterance \in Nat /\ F.nextUtterance >= nextUtterance /\ F.output \subseteq TpNew
        /\ IsFiniteSet(F.output) /\ F.used = {v.id : v \in F.output}
        /\ \A v \in F.output : /\ TpMade(v, c, Len(c)) /\ v.revision > 0 /\ v.id < F.nextUtterance
                               /\ (v.id >= nextUtterance \/ TpStems(v))
        /\ \A v, x \in F.output : v # x => v.id # x.id
    BY <1>3 DEF TpFitsUp, TpFits
  <1>7. IsFiniteSet(S)
    <2>1. PICK m \in Nat : DOMAIN utterances = 1..m
      BY DEF TpRows
    <2> DEFINE all1 == {Tp!Refreshed(u, c) : u \in TpOld}
               map == [i \in 1..m |-> Tp!Refreshed(utterances[i], c)]
    <2>2. \A x \in all1 : \E i \in 1..m : map[i] = x
      BY <2>1 DEF TpOld, Tp!ToSet
    <2>3. map \in [1..m -> all1]
      BY <2>1 DEF TpOld, Tp!ToSet
    <2>4. over \subseteq all1
      OBVIOUS
    <2> HIDE DEF map, all1, over
    <2>5. map \in Surjection(1..m, all1)
      BY <2>2, <2>3 DEF Surjection
    <2>6. IsFiniteSet(all1)
      BY <2>5, FS_Interval, FS_Surjection
    <2>7. IsFiniteSet(over)
      BY <2>4, <2>6, FS_Subset
    <2> QED
      BY <1>6, <2>7, FS_Union
  \* Every row that is published is well formed.
  <1>8. ASSUME NEW v \in F.output
        PROVE  TpRow(v) /\ v.status # "retracted" /\ v.id < F.nextUtterance /\ v.id \in Nat
    <2>1. /\ v \in TpNew /\ v.revision > 0 /\ v.id < F.nextUtterance /\ TpMade(v, c, Len(c))
      BY <1>6
    <2>2. PICK i \in 1..Len(c) : v.start = c[i].start /\ v.end = c[i].end
      BY <2>1 DEF TpMade
    <2>3. c[i].start < c[i].end /\ c[i].end <= ScriptLength
      BY <1>2 DEF TpCandidates
    <2>4. v.revision \in Nat \ {0} /\ v.start < v.end /\ v.end <= ScriptLength
      BY <2>1, <2>2, <2>3 DEF TpNew
    <2>5. v = [id |-> v.id, revision |-> v.revision, start |-> v.start, end |-> v.end, text |-> v.text,
               speaker |-> v.speaker, overlap |-> v.overlap, status |-> v.status, manual |-> v.manual]
      BY <2>1 DEF TpNew
    <2>6. /\ v.id \in Nat /\ v.start \in Nat /\ v.end \in Nat /\ v.speaker \in Speakers \cup {None}
          /\ v.manual \subseteq {"text", "speaker"} /\ v.status \in {"stable", "partial"} /\ v.overlap \in BOOLEAN
      BY <2>1 DEF TpNew
    <2> QED
      BY <2>1, <2>4, <2>5, <2>6 DEF TpRow
  <1>9. ASSUME NEW u \in manual
        PROVE  LET v == Tp!Refreshed(u, c) IN
               TpRow(v) /\ v.status # "retracted" /\ v.id = u.id /\ v.id < F.nextUtterance /\ v.id \in Nat
               /\ TpKeeps(v, u) /\ v.start = u.start /\ v.end = u.end
    BY <1>4, <1>5, <1>6 DEF TpTakesOver, TpKeeps
  <1>10. \A v \in S : TpRow(v) /\ v.status # "retracted" /\ v.id < F.nextUtterance
    BY <1>8, <1>9
  \* No two of them have an id in common.
  <1>11. ASSUME NEW v \in F.output, NEW u \in manual PROVE v.id # Tp!Refreshed(u, c).id
    <2>1. Tp!Refreshed(u, c).id = u.id
      BY <1>9
    <2>2. v.id # u.id
      <3>1. CASE v.id >= nextUtterance
        BY <1>4, <1>8, <3>1
      <3>2. CASE TpStems(v)
        <4>1. PICK y \in TpOld : ~Tp!Manual(y) /\ TpKeeps(v, y)
          BY <3>2 DEF TpStems, TpOld
        <4>2. y # u /\ u \in TpOld /\ v.id = y.id
          BY <4>1 DEF TpKeeps
        <4> QED
          BY <1>4, <4>2
      <3> QED
        BY <1>6, <3>1, <3>2
    <2> QED
      BY <2>1, <2>2
  <1>12. ASSUME NEW u \in manual, NEW y \in manual, Tp!Refreshed(u, c) # Tp!Refreshed(y, c)
         PROVE  Tp!Refreshed(u, c).id # Tp!Refreshed(y, c).id
    <2>1. u # y /\ u \in TpOld /\ y \in TpOld
      BY <1>12
    <2>2. u.id # y.id
      BY <1>4, <2>1
    <2> QED
      BY <1>9, <2>2
  <1>13. \A v, x \in S : v # x => v.id # x.id
    BY <1>6, <1>11, <1>12
  <1>14. /\ \E m \in Nat : DOMAIN utterances' = 1..m
         /\ Tp!ToSet(utterances') = S
         /\ \A i, j \in DOMAIN utterances' : i # j => utterances'[i] # utterances'[j]
    <2> HIDE DEF S
    <2> QED
      BY <1>1, <1>7, TpInOrder
  <1>15. TpRows(utterances', nextUtterance')
    <2> DEFINE new == utterances'
    <2> HIDE DEF S
    <2>1. \A i \in DOMAIN new : new[i] \in S
      BY <1>14 DEF Tp!ToSet
    <2>2. \A i \in DOMAIN new : TpRow(new[i]) /\ new[i].id < F.nextUtterance /\ new[i].status # "retracted"
      BY <1>10, <2>1
    <2>3. \A i, j \in DOMAIN new : i # j => new[i].id # new[j].id
      BY <1>13, <1>14, <2>1
    <2>5. nextUtterance' \in Nat /\ nextUtterance' = F.nextUtterance
      BY <1>1, <1>6
    <2> HIDE DEF new
    <2>6. \E m \in Nat : DOMAIN new = 1..m
      BY <1>14 DEF new
    <2>7. TpRows(new, nextUtterance')
      BY <2>2, <2>3, <2>5, <2>6 DEF TpRows
    <2> QED
      BY <2>7 DEF new
  <1>16. \A v \in S : v.id >= nextUtterance \/ \E u \in TpOld : TpKeeps(v, u)
    <2>1. \A v \in F.output : v.id >= nextUtterance \/ \E u \in TpOld : TpKeeps(v, u)
      BY <1>6 DEF TpStems, TpOld
    <2>2. \A u \in manual : \E y \in TpOld : TpKeeps(Tp!Refreshed(u, c), y)
      BY <1>9
    <2> QED
      BY <2>1, <2>2
  <1>17. {v \in TpOld : ~Tp!Manual(v) /\ v.id \notin F.used} = TpGone(utterances')
    <2>1. Tp!Ids(utterances') = {v.id : v \in S}
      BY <1>14, TpIds
    <2>2. ASSUME NEW u \in TpOld PROVE (~Tp!Manual(u) /\ u.id \notin F.used) <=> u.id \notin {v.id : v \in S}
      <3>1. ASSUME Tp!Manual(u) PROVE u.id \in {v.id : v \in S}
        <4>1. u \in manual /\ Tp!Refreshed(u, c) \in S
          BY <3>1
        <4> QED
          BY <1>9, <4>1
      <3>2. u.id \in F.used => u.id \in {v.id : v \in S}
        BY <1>6
      <3>3. ASSUME ~Tp!Manual(u), u.id \notin F.used, NEW v \in S, u.id = v.id PROVE FALSE
        <4>1. v \notin F.output
          BY <1>6, <3>3
        <4>2. PICK y \in manual : v = Tp!Refreshed(y, c)
          BY <4>1
        <4>3. v.id = y.id /\ y # u /\ y \in TpOld
          BY <1>9, <3>3, <4>2
        <4> QED
          BY <1>4, <3>3, <4>3
      <3> QED
        BY <3>1, <3>2, <3>3
    <2> HIDE DEF S
    <2> QED
      BY <2>1, <2>2 DEF TpGone
  <1>18. TpGoesOn(utterances', nextUtterance', withdrawn)
    <2>1. nextUtterance' >= nextUtterance
      BY <1>1, <1>6
    <2>2. withdrawn = {Tp!Retracted(u) : u \in TpGone(utterances')}
      BY <1>17
    <2> HIDE DEF S, withdrawn
    <2> QED
      BY <1>14, <1>15, <1>16, <2>1, <2>2 DEF TpGoesOn
  <1>19. \A u \in TpOld : Tp!Manual(u) => \E v \in Tp!ToSet(utterances') : TpTakesOver(v, u)
    BY <1>5, <1>14
  <1>20. TpLeft(utterances')
    <2>1. ASSUME NEW u \in S, NEW v \in S, Tp!Manual(u), ~Tp!Manual(v) PROVE ~Tp!Meets(u, v)
      <3>1. u \notin F.output
        BY <1>6, <2>1 DEF TpNew, Tp!Manual
      <3>2. PICK x \in manual : u = Tp!Refreshed(x, c)
        BY <3>1
      <3>3. v \in F.output
        <4>1. ASSUME NEW y \in manual PROVE Tp!Manual(Tp!Refreshed(y, c))
          BY <1>5 DEF TpTakesOver, Tp!Manual
        <4> QED
          BY <2>1, <4>1
      <3>4. PICK i \in 1..Len(c) : v.start = c[i].start /\ v.end = c[i].end /\ ~Tp!Taken(c[i])
        BY <1>6, <3>3 DEF TpMade
      <3>5. ~(c[i].start < x.end /\ x.start < c[i].end)
        BY <3>4 DEF Tp!Taken, Tp!Meets, TpOld
      <3>6. u.start = x.start /\ u.end = x.end
        BY <1>9, <3>2
      <3> QED
        BY <3>4, <3>5, <3>6 DEF Tp!Meets
    <2> HIDE DEF S
    <2> QED
      BY <1>14, <2>1 DEF TpLeft
  <1> HIDE DEF S, withdrawn
  <1>21. TpPublished(withdrawn)
    BY <1>1, <1>14, <1>18, <1>19, <1>20 DEF TpPublished
  <1> QED
    BY <1>21

-----------------------------------------------------------------------------
(* TranscriptPublishing: events, readers and corrections                   *)

\* What the events tell of the rows: the inductive part of EventsTellTheSession.  No event of a row
\* is newer than it, and the last one of a row that is gone says so.
TpTold ==
    /\ \A e \in events : TpRow(e) /\ e.id < nextUtterance /\ e.status # "partial"
    /\ \A u \in TpOld : u.status # "partial" => u \in events
    /\ \A u \in TpOld, e \in events : e.id = u.id => e.revision <= u.revision /\ (e.revision = u.revision => e = u)
    /\ \A e, f \in events : e.id = f.id /\ e.revision = f.revision => e = f
    /\ \A e \in events : Tp!Latest(e) /\ e.id \notin Tp!Ids(utterances) => e.status = "retracted"

\* What a user has on the screen is a row as it is or as it was.
TpScreen ==
    seen # None =>
        /\ corrections < MaxCorrections /\ seen.id \in Nat /\ seen.id < nextUtterance /\ seen.revision \in Nat
        /\ \A u \in TpOld : u.id = seen.id => seen.revision <= u.revision /\ (u.revision = seen.revision => u = seen)

\* The events go on as the rows do.
LEMMA TpEventsGoOn ==
  ASSUME TpRows(utterances, nextUtterance), TpTold, NEW withdrawn,
         TpGoesOn(utterances', nextUtterance', withdrawn),
         events' = Tp!Recorded((Tp!ToSet(utterances') \ TpOld) \cup withdrawn)
  PROVE  TpTold'
  <1> DEFINE new == Tp!ToSet(utterances')
             next == nextUtterance'
             emitted == (new \ TpOld) \cup withdrawn
  <1>1. /\ nextUtterance \in Nat
        /\ \A u \in TpOld : TpRow(u) /\ u.id \in Nat /\ u.revision \in Nat /\ u.id < nextUtterance
        /\ \A u, v \in TpOld : u # v => u.id # v.id
    BY TpSet DEF TpOld, TpRow
  <1>2. /\ next \in Nat /\ next >= nextUtterance
        /\ \A u \in new : TpRow(u) /\ u.id \in Nat /\ u.revision \in Nat /\ u.id < next /\ u.status # "retracted"
        /\ \A u, v \in new : u # v => u.id # v.id
    <2>1. TpRows(utterances', next) /\ next >= nextUtterance
      BY DEF TpGoesOn
    <2> DEFINE list == utterances'
    <2>2. TpRows(list, next)
      BY <2>1
    <2> HIDE DEF list, next
    <2>3. /\ next \in Nat
          /\ \A u \in Tp!ToSet(list) : TpRow(u) /\ u.id \in Nat /\ u.id < next /\ u.status # "retracted"
          /\ \A u, v \in Tp!ToSet(list) : u # v => u.id # v.id
      BY <2>2, TpSet
    <2>4. \A u \in Tp!ToSet(list) : u.revision \in Nat
      BY <2>3 DEF TpRow
    <2> QED
      BY <2>1, <2>3, <2>4 DEF list, next
  <1>3. Tp!Ids(utterances') = {v.id : v \in new} /\ Tp!Ids(utterances) = {v.id : v \in TpOld}
    BY TpIds DEF TpOld
  <1>4. /\ \A v \in new : v.id >= nextUtterance \/ \E u \in TpOld : TpKeeps(v, u)
        /\ withdrawn = {Tp!Retracted(u) : u \in {x \in TpOld : x.id \notin {v.id : v \in new}}}
    BY <1>3 DEF TpGoesOn, TpGone
  <1> HIDE DEF new, next
  \* A row that is withdrawn gets a last revision of its own.
  <1>5. ASSUME NEW u \in TpOld
        PROVE  LET x == Tp!Retracted(u) IN
               TpRow(x) /\ x.id = u.id /\ x.revision = u.revision + 1 /\ x.status = "retracted"
    <2> DEFINE x == [id |-> u.id, revision |-> u.revision, start |-> u.start, end |-> u.end, text |-> u.text,
                     speaker |-> u.speaker, overlap |-> u.overlap, status |-> u.status, manual |-> u.manual]
               y == [id |-> u.id, revision |-> u.revision + 1, start |-> u.start, end |-> u.end, text |-> u.text,
                     speaker |-> u.speaker, overlap |-> u.overlap, status |-> "retracted", manual |-> u.manual]
               z == [id |-> u.id, revision |-> u.revision, start |-> u.start, end |-> u.end, text |-> u.text,
                     speaker |-> u.speaker, overlap |-> u.overlap, status |-> "retracted", manual |-> u.manual]
    <2>1. u = x
      BY <1>1 DEF TpRow
    <2>2. [x EXCEPT !.status = "retracted"] = z
      OBVIOUS
    <2>3. [z EXCEPT !.revision = z.revision + 1] = y
      OBVIOUS
    <2> HIDE DEF x, z
    <2>4. Tp!Retracted(u) = [[x EXCEPT !.status = "retracted"] EXCEPT !.revision = [x EXCEPT !.status = "retracted"].revision + 1]
      BY <2>1 DEF Tp!Retracted
    <2>5. Tp!Retracted(u) = y
      BY <2>2, <2>3, <2>4
    <2>6. /\ y.id = u.id /\ y.revision = u.revision + 1 /\ y.start = u.start /\ y.end = u.end /\ y.text = u.text
          /\ y.speaker = u.speaker /\ y.overlap = u.overlap /\ y.status = "retracted" /\ y.manual = u.manual
      OBVIOUS
    <2>7. y = [id |-> y.id, revision |-> y.revision, start |-> y.start, end |-> y.end, text |-> y.text,
               speaker |-> y.speaker, overlap |-> y.overlap, status |-> y.status, manual |-> y.manual]
      BY <2>6
    <2> HIDE DEF y
    <2>8. TpRow(y)
      BY <1>1, <2>6, <2>7 DEF TpRow
    <2> QED
      BY <2>5, <2>6, <2>8
  <1>6. ASSUME NEW x \in withdrawn
        PROVE  /\ TpRow(x) /\ x.status = "retracted" /\ x.id \notin {v.id : v \in new}
               /\ \E u \in TpOld : x = Tp!Retracted(u) /\ x.id = u.id /\ x.revision = u.revision + 1
    BY <1>4, <1>5
  <1>7. /\ \A e \in events : TpRow(e) /\ e.id \in Nat /\ e.revision \in Nat /\ e.id < nextUtterance /\ e.status # "partial"
        /\ \A u \in TpOld : u.status # "partial" => u \in events
        /\ \A u \in TpOld : \A e \in events : e.id = u.id => e.revision <= u.revision /\ (e.revision = u.revision => e = u)
        /\ \A e, f \in events : e.id = f.id /\ e.revision = f.revision => e = f
        /\ \A e \in events : Tp!Latest(e) /\ e.id \notin {v.id : v \in TpOld} => e.status = "retracted"
    BY <1>3 DEF TpTold, TpRow
  \* An event of a new revision of a row is newer than every event of that row.
  <1>8. ASSUME NEW x \in emitted
        PROVE  \A e \in events : e.id = x.id => e.revision < x.revision
    <2> TAKE e \in events
    <2>1. HAVE e.id = x.id
    <2>2. CASE x \in withdrawn
      <3>1. PICK u \in TpOld : x.id = u.id /\ x.revision = u.revision + 1
        BY <1>6, <2>2
      <3> QED
        BY <1>1, <1>7, <2>1, <3>1
    <2>3. CASE x \in new /\ x \notin TpOld
      <3>1. CASE x.id >= nextUtterance
        BY <1>1, <1>2, <1>7, <2>1, <2>3, <3>1
      <3>2. CASE \E u \in TpOld : TpKeeps(x, u)
        <4>1. PICK u \in TpOld : x.id = u.id /\ x.revision = u.revision + 1
          BY <2>3, <3>2 DEF TpKeeps
        <4> QED
          BY <1>1, <1>7, <2>1, <4>1
      <3> QED
        BY <1>4, <2>3, <3>1, <3>2
    <2> QED
      BY <2>2, <2>3
  <1>9. \A x \in emitted : x.id \in Nat /\ x.revision \in Nat /\ TpRow(x)
    BY <1>2, <1>6 DEF TpRow
  <1>10. events' = events \cup {x \in emitted : x.status # "partial"}
    <2>1. events' = events \cup {x \in emitted : x.status # "partial" /\ ~\E e \in events : e.id = x.id /\ e.revision = x.revision}
      BY DEF Tp!Recorded, new
    <2>2. \A x \in emitted : ~\E e \in events : e.id = x.id /\ e.revision = x.revision
      BY <1>7, <1>8, <1>9
    <2> HIDE DEF emitted
    <2> QED
      BY <2>1, <2>2
  <1>11. \A e \in events' : TpRow(e) /\ e.id \in Nat /\ e.revision \in Nat /\ e.id < next /\ e.status # "partial"
    <2>1. \A x \in emitted : x.id < next
      BY <1>1, <1>2, <1>6
    <2>2. \A e \in events : e.id < next
      BY <1>1, <1>2, <1>7
    <2> HIDE DEF emitted
    <2> QED
      BY <1>7, <1>9, <1>10, <2>1, <2>2
  <1>12. \A u \in new : u.status # "partial" => u \in events'
    BY <1>7, <1>10
  <1>13. \A u \in new : \A e \in events' : e.id = u.id => e.revision <= u.revision /\ (e.revision = u.revision => e = u)
    <2> TAKE u \in new
    <2> TAKE e \in events'
    <2>0. HAVE e.id = u.id
    <2>1. CASE e \in new
      BY <1>2, <2>0, <2>1
    <2>2. CASE e \in withdrawn
      BY <1>6, <2>0, <2>2
    <2>3. CASE e \in events /\ u \in TpOld
      BY <1>7, <2>0, <2>3
    <2>4. CASE e \in events /\ u \notin TpOld
      <3>1. u \in emitted
        BY <2>4
      <3>2. e.revision < u.revision /\ e.revision \in Nat /\ u.revision \in Nat
        BY <1>2, <1>7, <1>8, <2>0, <2>4, <3>1
      <3> QED
        BY <3>2
    <2> QED
      BY <1>10, <2>1, <2>2, <2>3, <2>4
  <1>14. \A e, f \in events' : e.id = f.id /\ e.revision = f.revision => e = f
    <2>1. ASSUME NEW e \in emitted, NEW f \in emitted, e.id = f.id PROVE e = f
      <3>1. CASE e \in new /\ f \in new
        BY <1>2, <2>1, <3>1
      <3>2. CASE e \in withdrawn /\ f \in withdrawn
        <4>1. PICK u \in TpOld : e = Tp!Retracted(u) /\ e.id = u.id
          BY <1>6, <3>2
        <4>2. PICK v \in TpOld : f = Tp!Retracted(v) /\ f.id = v.id
          BY <1>6, <3>2
        <4> QED
          BY <1>1, <2>1, <4>1, <4>2
      <3> QED
        BY <1>6, <2>1, <3>1, <3>2
    <2>2. ASSUME NEW e \in events, NEW f \in emitted, e.id = f.id PROVE e.revision # f.revision
      BY <1>7, <1>8, <1>9, <2>2
    <2> HIDE DEF emitted
    <2> QED
      BY <1>7, <1>10, <2>1, <2>2
  <1>15. \A e \in events' : (\A f \in events' : f.id = e.id => f.revision <= e.revision) /\ e.id \notin {v.id : v \in new}
                            => e.status = "retracted"
    <2> TAKE e \in events'
    <2>0. HAVE (\A f \in events' : f.id = e.id => f.revision <= e.revision) /\ e.id \notin {v.id : v \in new}
    <2>1. e \in events \/ e \in withdrawn
      BY <1>10, <2>0
    <2>2. CASE e \in withdrawn
      BY <1>6, <2>2
    <2>3. CASE e \in events /\ e.id \notin {v.id : v \in TpOld}
      <3>1. Tp!Latest(e)
        BY <1>10, <2>0 DEF Tp!Latest
      <3> QED
        BY <1>7, <2>3, <3>1
    <2>4. CASE e \in events /\ e.id \in {v.id : v \in TpOld}
      <3>1. PICK u \in TpOld : u.id = e.id
        BY <2>4
      <3>2. Tp!Retracted(u) \in withdrawn
        BY <1>4, <2>0, <3>1
      <3>3. Tp!Retracted(u) \in events'
        BY <1>5, <1>10, <3>1, <3>2
      <3>4. u.revision + 1 <= e.revision
        BY <1>5, <2>0, <3>1, <3>3
      <3>5. e.revision <= u.revision /\ e.revision \in Nat /\ u.revision \in Nat
        BY <1>1, <1>7, <2>4, <3>1
      <3> QED
        BY <3>4, <3>5
    <2> QED
      BY <2>1, <2>2, <2>3, <2>4
  <1>16. TpOld' = new
    BY DEF TpOld, new
  <1>17. \A e : Tp!Latest(e)' <=> \A f \in events' : f.id = e.id => f.revision <= e.revision
    BY DEF Tp!Latest
  <1> QED
    BY <1>3, <1>11, <1>12, <1>13, <1>14, <1>15, <1>16, <1>17 DEF TpTold, next, new

\* What is on the screen stays true while the rows go on.
LEMMA TpScreenGoesOn ==
  ASSUME TpRows(utterances, nextUtterance), TpScreen, UNCHANGED <<seen, corrections>>, NEW withdrawn,
         TpGoesOn(utterances', nextUtterance', withdrawn)
  PROVE  TpScreen'
  <1> SUFFICES ASSUME seen # None
               PROVE  /\ corrections < MaxCorrections /\ seen.id \in Nat /\ seen.id < nextUtterance'
                      /\ seen.revision \in Nat
                      /\ \A u \in Tp!ToSet(utterances') : u.id = seen.id =>
                             seen.revision <= u.revision /\ (u.revision = seen.revision => u = seen)
    BY DEF TpScreen, TpOld
  <1>1. /\ corrections < MaxCorrections /\ seen.id \in Nat /\ seen.id < nextUtterance /\ seen.revision \in Nat
        /\ \A u \in TpOld : u.id = seen.id => seen.revision <= u.revision /\ (u.revision = seen.revision => u = seen)
    BY DEF TpScreen
  <1>2. /\ nextUtterance \in Nat /\ nextUtterance' \in Nat /\ nextUtterance' >= nextUtterance
        /\ \A u \in TpOld : u.revision \in Nat
    <2>1. \A u \in TpOld : TpRow(u)
      BY TpSet DEF TpOld
    <2> QED
      BY <2>1 DEF TpRows, TpGoesOn, TpRow
  <1>3. ASSUME NEW v \in Tp!ToSet(utterances'), v.id = seen.id
        PROVE  seen.revision <= v.revision /\ (v.revision = seen.revision => v = seen)
    <2>1. ~(v.id >= nextUtterance)
      BY <1>1, <1>2, <1>3
    <2>2. PICK u \in TpOld : TpKeeps(v, u)
      BY <1>3, <2>1 DEF TpGoesOn
    <2>3. u.id = seen.id /\ (v = u \/ v.revision = u.revision + 1)
      BY <1>3, <2>2 DEF TpKeeps
    <2> QED
      BY <1>1, <1>2, <2>3
  <1> QED
    BY <1>1, <1>2, <1>3

\* TranscriptPublishing as a whole.
TpInv ==
    /\ TpRows(utterances, nextUtterance) /\ TpTold /\ TpScreen
    /\ passes \in 0..MaxPasses /\ corrections \in 0..MaxCorrections

\* A session without utterances.
LEMMA TpInit == ASSUME Tp!Init PROVE TpInv
  <1>1. /\ utterances = <<>> /\ events = {} /\ seen = None /\ nextUtterance = 0 /\ passes = 0 /\ corrections = 0
    BY DEF Tp!Init
  <1>2. DOMAIN utterances = 1..0 /\ DOMAIN utterances = {} /\ TpOld = {}
    BY <1>1 DEF TpOld, Tp!ToSet
  <1>3. TpRows(utterances, nextUtterance)
    BY <1>1, <1>2 DEF TpRows
  <1>4. TpTold
    BY <1>1, <1>2 DEF TpTold
  <1>5. TpScreen
    BY <1>1 DEF TpScreen
  <1>6. MaxPasses \in Nat /\ MaxCorrections \in Nat
    BY PublishingAssumption
  <1>7. passes \in 0..MaxPasses /\ corrections \in 0..MaxCorrections
    BY <1>1, <1>6
  <1> QED
    BY <1>3, <1>4, <1>5, <1>7 DEF TpInv

\* What a pass hears are words within the recording, in the order of their starts.
LEMMA TpHears ==
  ASSUME NEW w \in Tp!Heard
  PROVE  \E n \in Nat : TpHeard(w, n)
  <1>0. ScriptLength \in Nat /\ MaxWords \in Nat
    BY PublishingAssumption
  <1>0a. PICK spans \in Tp!Hearings, wording \in Texts, voice \in Tp!Voices, overlaps \in SUBSET Tp!Steps :
             w = Tp!Words(spans, wording, voice, overlaps)
    BY DEF Tp!Heard
  <1>1. PICK n \in 0..MaxWords : spans \in [1..n -> Tp!Spans]
    BY DEF Tp!Hearings
  <1>2. \A i, j \in DOMAIN spans : i < j => spans[i].start <= spans[j].start
    <2>1. \A i, j \in DOMAIN spans : i < j => Tp!Sorted(spans[i], spans[j])
      BY DEF Tp!Hearings
    <2>2. \A i \in DOMAIN spans : spans[i].start \in Int
      BY <1>0, <1>1 DEF Tp!Spans, Tp!Steps
    <2> QED
      BY <2>1, <2>2 DEF Tp!Sorted
  <1>3. ASSUME NEW i \in 1..n
        PROVE  /\ spans[i].start \in 0..ScriptLength - 1 /\ spans[i].end \in 1..ScriptLength
               /\ spans[i].start < spans[i].end
    <2>1. spans[i] \in Tp!Spans
      BY <1>1
    <2>2. /\ spans[i] \in [start : 0..ScriptLength - 1, end : 1..ScriptLength]
          /\ spans[i].end - spans[i].start \in {1, 2}
      BY <2>1 DEF Tp!Spans, Tp!Steps
    <2> DEFINE a == spans[i].start
               b == spans[i].end
    <2>3. a \in 0..ScriptLength - 1 /\ b \in 1..ScriptLength /\ b - a \in {1, 2}
      BY <2>2
    <2> HIDE DEF a, b
    <2>4. a < b
      BY <1>0, <2>3
    <2> QED
      BY <2>3, <2>4 DEF a, b
  <1>4. \A i \in 1..n : voice[spans[i]] \in Speakers \cup {None}
    BY <1>1 DEF Tp!Voices
  <1>5. w = [i \in 1..n |-> [start |-> spans[i].start, end |-> spans[i].end, wording |-> wording,
                             speaker |-> voice[spans[i]],
                             overlap |-> \E k \in overlaps : spans[i].start <= k /\ k < spans[i].end]]
    BY <1>0a, <1>1 DEF Tp!Words
  <1>6. \A i \in 1..n : w[i] \in TpWord /\ w[i].start = spans[i].start /\ w[i].end = spans[i].end
    BY <1>0, <1>3, <1>4, <1>5 DEF TpWord
  <1>7. w \in [1..n -> TpWord]
    BY <1>5, <1>6
  <1>8. \A i \in 1..n : w[i].start < w[i].end /\ w[i].end <= ScriptLength
    BY <1>0, <1>3, <1>6
  <1>9. \A i, j \in 1..n : i < j => w[i].start <= w[j].start
    BY <1>1, <1>2, <1>6
  <1>10. TpHeard(w, n) /\ n \in Nat
    BY <1>0, <1>7, <1>8, <1>9 DEF TpHeard
  <1> QED
    BY <1>10

\* A corrected row is a new revision of the one that was read.
LEMMA TpCorrected ==
  ASSUME NEW u, TpRow(u), NEW text, NEW speaker \in Speakers \cup {None, "same"}
  PROVE  LET v == Tp!Corrected(u, text, speaker) IN
         /\ TpRow(v) /\ v.id = u.id /\ v.revision = u.revision + 1 /\ v.start = u.start /\ v.end = u.end
         /\ v.status = "corrected"
  <1> DEFINE said == IF text THEN <<"correction">> ELSE u.text
             voice == IF speaker = "same" THEN u.speaker ELSE speaker
             more == u.manual \cup (IF text THEN {"text"} ELSE {}) \cup (IF speaker = "same" THEN {} ELSE {"speaker"})
             x0 == [id |-> u.id, revision |-> u.revision, start |-> u.start, end |-> u.end, text |-> u.text,
                    speaker |-> u.speaker, overlap |-> u.overlap, status |-> u.status, manual |-> u.manual]
             x1 == [id |-> u.id, revision |-> u.revision, start |-> u.start, end |-> u.end, text |-> said,
                    speaker |-> u.speaker, overlap |-> u.overlap, status |-> u.status, manual |-> u.manual]
             x2 == [id |-> u.id, revision |-> u.revision, start |-> u.start, end |-> u.end, text |-> said,
                    speaker |-> voice, overlap |-> u.overlap, status |-> u.status, manual |-> u.manual]
             x3 == [id |-> u.id, revision |-> u.revision, start |-> u.start, end |-> u.end, text |-> said,
                    speaker |-> voice, overlap |-> u.overlap, status |-> u.status, manual |-> more]
             x4 == [id |-> u.id, revision |-> u.revision, start |-> u.start, end |-> u.end, text |-> said,
                    speaker |-> voice, overlap |-> u.overlap, status |-> "corrected", manual |-> more]
             v == [id |-> u.id, revision |-> u.revision + 1, start |-> u.start, end |-> u.end, text |-> said,
                   speaker |-> voice, overlap |-> u.overlap, status |-> "corrected", manual |-> more]
  <1>1. u = x0 /\ u.revision \in Nat \ {0} /\ u.manual \subseteq {"text", "speaker"} /\ u.speaker \in Speakers \cup {None}
        /\ u.overlap \in BOOLEAN
    BY DEF TpRow
  <1>2. voice \in Speakers \cup {None} /\ more \subseteq {"text", "speaker"}
    BY <1>1
  <1>3. Tp!Corrected(u, text, speaker) =
            [u EXCEPT !.text = said, !.speaker = voice, !.manual = more, !.status = "corrected", !.revision = @ + 1]
    BY DEF Tp!Corrected
  <1> HIDE DEF said, voice, more
  <1>4. [x0 EXCEPT !.text = said] = x1
    OBVIOUS
  <1>5. [x1 EXCEPT !.speaker = voice] = x2
    OBVIOUS
  <1>6. [x2 EXCEPT !.manual = more] = x3
    OBVIOUS
  <1>7. [x3 EXCEPT !.status = "corrected"] = x4
    OBVIOUS
  <1>8. [x4 EXCEPT !.revision = x4.revision + 1] = v
    OBVIOUS
  <1> HIDE DEF x0, x1, x2, x3, x4
  <1>9. [u EXCEPT !.text = said, !.speaker = voice, !.manual = more, !.status = "corrected", !.revision = @ + 1] = v
    <2>1. [u EXCEPT !.text = said, !.speaker = voice, !.manual = more, !.status = "corrected"] =
            [[[[x0 EXCEPT !.text = said] EXCEPT !.speaker = voice] EXCEPT !.manual = more] EXCEPT !.status = "corrected"]
      BY <1>1
    <2>2. [u EXCEPT !.text = said, !.speaker = voice, !.manual = more, !.status = "corrected"] = x4
      BY <1>4, <1>5, <1>6, <1>7, <2>1
    <2> DEFINE y == [u EXCEPT !.text = said, !.speaker = voice, !.manual = more, !.status = "corrected"]
    <2>3. [u EXCEPT !.text = said, !.speaker = voice, !.manual = more, !.status = "corrected", !.revision = @ + 1]
            = [y EXCEPT !.revision = y.revision + 1]
      OBVIOUS
    <2> HIDE DEF y
    <2> QED
      BY <1>8, <2>2, <2>3 DEF y
  <1>10. /\ v.id = u.id /\ v.revision = u.revision + 1 /\ v.start = u.start /\ v.end = u.end /\ v.text = said
         /\ v.speaker = voice /\ v.overlap = u.overlap /\ v.status = "corrected" /\ v.manual = more
    OBVIOUS
  <1>11. v = [id |-> v.id, revision |-> v.revision, start |-> v.start, end |-> v.end, text |-> v.text,
              speaker |-> v.speaker, overlap |-> v.overlap, status |-> v.status, manual |-> v.manual]
    BY <1>10
  <1> HIDE DEF v
  <1>12. TpRow(v)
    BY <1>1, <1>2, <1>10, <1>11 DEF TpRow
  <1> QED
    BY <1>3, <1>9, <1>10, <1>12

\* A correction changes the row that was read, as it was read.
LEMMA TpCorrects ==
  ASSUME TpInv, NEW i \in DOMAIN utterances, NEW text, NEW speaker \in Speakers \cup {None, "same"},
         Tp!Correct(i, text, speaker)
  PROVE  TpInv' /\ seen \in TpOld
  <1> DEFINE u == utterances[i]
             v == Tp!Corrected(u, text, speaker)
             new == utterances'
  <1>1. /\ seen # None /\ u.id = seen.id /\ u.revision = seen.revision
        /\ new = [utterances EXCEPT ![i] = v] /\ events' = Tp!Recorded({new[i]})
        /\ seen' = None /\ corrections' = corrections + 1 /\ nextUtterance' = nextUtterance /\ passes' = passes
    BY DEF Tp!Correct, Tp!BaseHolds
  <1>2. /\ TpRows(utterances, nextUtterance) /\ TpTold /\ TpScreen
        /\ passes \in 0..MaxPasses /\ corrections \in 0..MaxCorrections
    BY DEF TpInv
  <1>3. /\ nextUtterance \in Nat
        /\ \A x \in TpOld : TpRow(x) /\ x.id \in Nat /\ x.id < nextUtterance /\ x.status # "retracted"
        /\ \A x, y \in TpOld : x # y => x.id # y.id
    BY <1>2, TpSet DEF TpOld
  <1>4. u \in TpOld
    BY DEF TpOld, Tp!ToSet
  <1>5. /\ TpRow(v) /\ v.id = u.id /\ v.revision = u.revision + 1 /\ v.start = u.start /\ v.end = u.end
        /\ v.status = "corrected"
    BY <1>3, <1>4, TpCorrected
  <1>6. /\ DOMAIN new = DOMAIN utterances /\ new[i] = v
        /\ \A j \in DOMAIN utterances : j # i => new[j] = utterances[j]
    BY <1>1
  <1> HIDE DEF u, v, new
  <1>7. \A j \in DOMAIN utterances : new[j].id = utterances[j].id
    BY <1>5, <1>6 DEF u
  <1>8. TpRows(new, nextUtterance)
    <2>1. /\ \E n \in Nat : DOMAIN utterances = 1..n
          /\ \A j \in DOMAIN utterances : /\ TpRow(utterances[j]) /\ utterances[j].id < nextUtterance
                                          /\ utterances[j].status # "retracted"
          /\ \A j, k \in DOMAIN utterances : j # k => utterances[j].id # utterances[k].id
      BY <1>2 DEF TpRows
    <2>2. \A j \in DOMAIN new : TpRow(new[j]) /\ new[j].id < nextUtterance /\ new[j].status # "retracted"
      BY <1>5, <1>6, <1>7, <2>1
    <2>3. \A j, k \in DOMAIN new : j # k => new[j].id # new[k].id
      BY <1>6, <1>7, <2>1
    <2> QED
      BY <1>3, <1>6, <2>1, <2>2, <2>3 DEF TpRows
  <1>9. /\ \A x \in Tp!ToSet(new) : x = v \/ x \in TpOld
        /\ v \in Tp!ToSet(new) /\ v \notin TpOld
        /\ \A x \in TpOld : x = u \/ x \in Tp!ToSet(new)
    <2>1. v \notin TpOld
      <3>1. u.revision \in Nat
        BY <1>3, <1>4 DEF TpRow
      <3>2. v # u
        BY <1>5, <3>1
      <3> QED
        BY <1>3, <1>4, <1>5, <3>2
    <2>2. \A x \in Tp!ToSet(new) : x = v \/ x \in TpOld
      BY <1>6 DEF Tp!ToSet, TpOld
    <2>3. \A x \in TpOld : x = u \/ x \in Tp!ToSet(new)
      BY <1>6 DEF Tp!ToSet, TpOld, u
    <2>4. v \in Tp!ToSet(new)
      BY <1>6 DEF Tp!ToSet
    <2> QED
      BY <2>1, <2>2, <2>3, <2>4
  <1>10. \A x \in Tp!ToSet(new) : \E y \in TpOld : TpKeeps(x, y)
    BY <1>4, <1>5, <1>9 DEF TpKeeps
  <1>11. TpGone(new) = {}
    <2>1. Tp!Ids(new) = {x.id : x \in Tp!ToSet(new)}
      BY TpIds
    <2> QED
      BY <1>5, <1>9, <2>1 DEF TpGone
  <1>12. TpGoesOn(new, nextUtterance, {})
    BY <1>3, <1>8, <1>10, <1>11 DEF TpGoesOn
  <1>13. {new[i]} = (Tp!ToSet(new) \ TpOld) \cup {}
    BY <1>6, <1>9
  <1>14. TpTold'
    <2>1. TpGoesOn(utterances', nextUtterance', {})
      BY <1>1, <1>12 DEF new
    <2>2. events' = Tp!Recorded((Tp!ToSet(utterances') \ TpOld) \cup {})
      BY <1>1, <1>13 DEF new
    <2> QED
      BY <1>2, <2>1, <2>2, TpEventsGoOn
  <1>15. TpScreen'
    BY <1>1 DEF TpScreen
  <1>16. TpRows(utterances, nextUtterance)'
    BY <1>1, <1>8 DEF new, TpRows
  <1>17. passes' \in 0..MaxPasses /\ corrections' \in 0..MaxCorrections
    <2>1. corrections < MaxCorrections /\ MaxCorrections \in Nat
      BY <1>1, <1>2, PublishingAssumption DEF TpScreen
    <2> QED
      BY <1>1, <1>2, <2>1
  <1>18. seen \in TpOld
    BY <1>1, <1>2, <1>4 DEF TpScreen
  <1> QED
    BY <1>14, <1>15, <1>16, <1>17, <1>18 DEF TpInv

\* A pass takes the corrected rows over and leaves their time to them.
LEMMA TpPasses ==
  ASSUME TpInv, Tp!Pass
  PROVE  /\ TpInv' /\ TpLeft(utterances')
         /\ \A u \in TpOld : Tp!Manual(u) => \E v \in Tp!ToSet(utterances') : TpTakesOver(v, u)
  <1>1. /\ passes < MaxPasses /\ passes' = passes + 1 /\ seen' = seen /\ corrections' = corrections
    BY DEF Tp!Pass
  <1>2. PICK w \in Tp!Heard, until \in 0..ScriptLength : Tp!Publish(w, until)
    BY DEF Tp!Pass
  <1>3. /\ TpRows(utterances, nextUtterance) /\ TpTold /\ TpScreen
        /\ passes \in 0..MaxPasses /\ corrections \in 0..MaxCorrections
    BY DEF TpInv
  <1>4. PICK n \in Nat : TpHeard(w, n)
    BY TpHears
  <1>6. PICK withdrawn : TpPublished(withdrawn)
    BY <1>2, <1>3, <1>4, TpPublishes
  <1>7. /\ TpGoesOn(utterances', nextUtterance', withdrawn)
        /\ events' = Tp!Recorded((Tp!ToSet(utterances') \ TpOld) \cup withdrawn)
        /\ \A u \in TpOld : Tp!Manual(u) => \E v \in Tp!ToSet(utterances') : TpTakesOver(v, u)
        /\ TpLeft(utterances')
    BY <1>6 DEF TpPublished
  <1>8. TpTold'
    BY <1>3, <1>7, TpEventsGoOn
  <1>9. TpScreen'
    BY <1>1, <1>3, <1>7, TpScreenGoesOn
  <1>10. TpRows(utterances, nextUtterance)'
    BY <1>7 DEF TpGoesOn, TpRows
  <1>11. passes' \in 0..MaxPasses /\ corrections' \in 0..MaxCorrections
    <2>1. MaxPasses \in Nat
      BY PublishingAssumption
    <2> QED
      BY <1>1, <1>3, <2>1
  <1> QED
    BY <1>7, <1>8, <1>9, <1>10, <1>11 DEF TpInv

\* A user reads a row.
LEMMA TpReads ==
  ASSUME TpInv, NEW u \in TpOld, Tp!Read(u)
  PROVE  TpInv'
  <1>1. /\ corrections < MaxCorrections /\ seen' = u
        /\ UNCHANGED <<utterances, events, nextUtterance, passes, corrections>>
    BY DEF Tp!Read
  <1>2. /\ TpRows(utterances, nextUtterance) /\ TpTold
        /\ passes \in 0..MaxPasses /\ corrections \in 0..MaxCorrections
    BY DEF TpInv
  <1>3. /\ nextUtterance \in Nat
        /\ \A x \in TpOld : TpRow(x) /\ x.id \in Nat /\ x.id < nextUtterance /\ x.revision \in Nat
        /\ \A x, y \in TpOld : x # y => x.id # y.id
    BY <1>2, TpSet DEF TpOld, TpRow
  <1>4. TpScreen'
    <2>1. \A x \in TpOld : x.id = u.id => u.revision <= x.revision /\ (x.revision = u.revision => x = u)
      BY <1>3
    <2>2. TpOld' = TpOld
      BY <1>1 DEF TpOld
    <2> QED
      BY <1>1, <1>3, <2>1, <2>2 DEF TpScreen
  <1>5. TpRows(utterances, nextUtterance)'
    BY <1>1, <1>2 DEF TpRows
  <1>6. TpTold'
    BY <1>1, <1>2 DEF TpTold, TpOld, Tp!Latest, Tp!Ids
  <1>7. passes' \in 0..MaxPasses /\ corrections' \in 0..MaxCorrections
    BY <1>1, <1>2
  <1> QED
    BY <1>4, <1>5, <1>6, <1>7 DEF TpInv

\* Every step keeps the invariant and what was corrected, and corrects what was read.
TpCorrectionsStay ==
    \A u \in Tp!ToSet(utterances) : Tp!Manual(u) /\ corrections' = corrections =>
        \E v \in Tp!ToSet(utterances') :
            /\ v.id = u.id /\ v.start = u.start /\ v.end = u.end /\ v.manual = u.manual
            /\ "text" \in u.manual => v.text = u.text
            /\ "speaker" \in u.manual => v.speaker = u.speaker

\* Every pass, reading and correction keeps the invariant, and a step of another module does.
LEMMA TpStep ==
  ASSUME TpInv, [Tp!Next]_Tp!tpVars
  PROVE  /\ TpInv' /\ TpCorrectionsStay /\ (corrections' > corrections => seen \in Tp!ToSet(utterances))
         /\ (passes' > passes => TpLeft(utterances'))
  <1>0. corrections \in Nat /\ passes \in Nat
    BY PublishingAssumption DEF TpInv
  <1>1. CASE Tp!Pass
    <2>1. corrections' = corrections
      BY <1>1 DEF Tp!Pass
    <2>2. /\ TpInv' /\ TpLeft(utterances')
          /\ \A u \in TpOld : Tp!Manual(u) => \E v \in Tp!ToSet(utterances') : TpTakesOver(v, u)
      BY <1>1, TpPasses
    <2> QED
      BY <1>0, <2>1, <2>2 DEF TpCorrectionsStay, TpTakesOver, TpKeeps, TpOld
  <1>2. ASSUME NEW u \in Tp!ToSet(utterances), Tp!Read(u)
        PROVE  TpInv' /\ TpCorrectionsStay /\ ~(corrections' > corrections) /\ ~(passes' > passes)
    <2>1. utterances' = utterances /\ corrections' = corrections /\ passes' = passes
      BY <1>2 DEF Tp!Read
    <2>2. TpInv'
      BY <1>2, TpReads DEF TpOld
    <2> QED
      BY <1>0, <2>1, <2>2 DEF TpCorrectionsStay
  <1>3. ASSUME NEW i \in DOMAIN utterances, NEW text \in BOOLEAN, NEW speaker \in Speakers \cup {None, "same"},
               Tp!Correct(i, text, speaker)
        PROVE  TpInv' /\ TpCorrectionsStay /\ seen \in Tp!ToSet(utterances) /\ ~(passes' > passes)
    <2>1. corrections' # corrections /\ passes' = passes
      BY <1>0, <1>3 DEF Tp!Correct
    <2>2. TpInv' /\ seen \in TpOld
      BY <1>3, TpCorrects
    <2> QED
      BY <1>0, <2>1, <2>2 DEF TpCorrectionsStay, TpOld
  <1>4. CASE UNCHANGED Tp!tpVars
    <2>1. UNCHANGED <<utterances, events, seen, nextUtterance, passes, corrections>>
      BY <1>4 DEF Tp!tpVars
    <2>2. TpInv'
      BY <2>1 DEF TpInv, TpRows, TpTold, TpScreen, TpOld, Tp!Latest, Tp!Ids
    <2> QED
      BY <1>0, <2>1, <2>2 DEF TpCorrectionsStay
  <1> QED
    BY <1>1, <1>2, <1>3, <1>4 DEF Tp!Next

\* What the invariant says of the rows and the events.
LEMMA TpHolds == ASSUME TpInv PROVE Tp!TypeOK /\ Tp!EventsTellTheSession /\ Tp!OneRowEach
  <1>1. /\ TpRows(utterances, nextUtterance) /\ TpTold
        /\ passes \in 0..MaxPasses /\ corrections \in 0..MaxCorrections
    BY DEF TpInv
  <1>2. \A x \in TpOld : TpRow(x) /\ x.id < nextUtterance /\ x.status # "retracted"
    BY <1>1, TpSet DEF TpOld
  <1>3. \A x \in events : TpRow(x) /\ x.id < nextUtterance /\ x.status # "partial"
    BY <1>1 DEF TpTold
  <1>4. Tp!TypeOK
    <2>1. \A x \in TpOld \cup events :
              /\ x.id < nextUtterance /\ x.revision > 0 /\ 0 <= x.start /\ x.start < x.end /\ x.end <= ScriptLength
              /\ x.status \in {"partial", "stable", "corrected", "retracted"}
              /\ x.manual \subseteq {"text", "speaker"} /\ x.speaker \in Speakers \cup {None}
              /\ x.overlap \in BOOLEAN
      BY <1>2, <1>3 DEF TpRow
    <2>2. passes <= MaxPasses /\ corrections <= MaxCorrections
      BY <1>1
    <2> QED
      BY <1>2, <1>3, <2>1, <2>2 DEF Tp!TypeOK, TpOld
  <1>5. Tp!EventsTellTheSession
    BY <1>1 DEF TpTold, Tp!EventsTellTheSession, Tp!Latest, TpOld
  <1>6. Tp!OneRowEach
    BY <1>1 DEF TpRows, Tp!OneRowEach
  <1> QED
    BY <1>4, <1>5, <1>6

-----------------------------------------------------------------------------
(* TranscriptPublishing: build_script                                      *)

\* The blocks of a script hold rows by their places, and speak with their voice.
TpVoices(n) == {Tp!Voice(k) : k \in 1..n}
TpBlock(n) == [speaker : TpVoices(n), of : Seq(1..n)]

\* A row goes to the last block or begins a new one.
TpAdds(r, list, k) ==
    LET m == Len(list) IN
    \/ /\ Len(r) = m + 1 /\ r[m + 1] = [speaker |-> Tp!Voice(k), of |-> <<k>>]
       /\ \A i \in 1..m : r[i] = list[i]
    \/ /\ m > 0 /\ Len(r) = m /\ r[m].speaker = Tp!Voice(k) /\ list[m].speaker = Tp!Voice(k)
       /\ r[m].of = Append(list[m].of, k) /\ Tp!Adjoins(utterances[k - 1], utterances[k])
       /\ \A i \in 1..m - 1 : r[i] = list[i]

\* Adding a row is one of the two.
LEMMA TpAdded ==
  ASSUME NEW n \in Nat, NEW list \in Seq(TpBlock(n)), NEW k \in 1..n
  PROVE  Tp!Added(list, k) \in Seq(TpBlock(n)) /\ TpAdds(Tp!Added(list, k), list, k)
  <1> DEFINE r == Tp!Added(list, k)
             m == Len(list)
             new == [speaker |-> Tp!Voice(k), of |-> <<k>>]
             more == [list[m] EXCEPT !.of = Append(@, k)]
             cond == list # <<>> /\ Tp!Last(list).speaker = Tp!Voice(k) /\ Tp!Adjoins(utterances[k - 1], utterances[k])
  <1>1. m \in Nat /\ DOMAIN list = 1..m /\ \A i \in 1..m : list[i] \in TpBlock(n)
    OBVIOUS
  <1>2. r = IF cond THEN Append(Tp!Front(list), [Tp!Last(list) EXCEPT !.of = Append(@, k)]) ELSE Append(list, new)
    BY DEF Tp!Added
  <1>3. CASE cond
    <2>1. m > 0
      BY <1>1, <1>3
    <2>2. Tp!Front(list) = SubSeq(list, 1, m - 1) /\ Tp!Last(list) = list[m]
      BY DEF Tp!Front, Tp!Last
    <2>3. /\ r = Append(SubSeq(list, 1, m - 1), more) /\ list[m].speaker = Tp!Voice(k)
          /\ Tp!Adjoins(utterances[k - 1], utterances[k])
      BY <1>2, <1>3, <2>2
    <2>4. more \in TpBlock(n) /\ more.speaker = list[m].speaker /\ more.of = Append(list[m].of, k)
      <3>1. list[m] \in TpBlock(n)
        BY <1>1, <2>1
      <3>2. Append(list[m].of, k) \in Seq(1..n)
        BY <3>1 DEF TpBlock
      <3> QED
        BY <3>1, <3>2 DEF TpBlock
    <2> HIDE DEF more, r, cond
    <2>5. /\ SubSeq(list, 1, m - 1) \in Seq(TpBlock(n)) /\ Len(SubSeq(list, 1, m - 1)) = m - 1
          /\ \A i \in 1..m - 1 : SubSeq(list, 1, m - 1)[i] = list[i]
      BY <1>1, <2>1
    <2>6. r \in Seq(TpBlock(n)) /\ Len(r) = m /\ r[m] = more /\ \A i \in 1..m - 1 : r[i] = list[i]
      <3> DEFINE p == SubSeq(list, 1, m - 1)
      <3>1. p \in Seq(TpBlock(n)) /\ Len(p) = m - 1 /\ r = Append(p, more) /\ more \in TpBlock(n)
        BY <2>3, <2>4, <2>5
      <3>2. \A i \in 1..m - 1 : p[i] = list[i]
        BY <2>5
      <3> HIDE DEF p
      <3>3. Append(p, more) \in Seq(TpBlock(n)) /\ Len(Append(p, more)) = Len(p) + 1
        BY <3>1
      <3>4. Append(p, more)[Len(p) + 1] = more /\ \A i \in 1..Len(p) : Append(p, more)[i] = p[i]
        BY <3>1
      <3> QED
        BY <1>1, <2>1, <3>1, <3>2, <3>3, <3>4
    <2> QED
      BY <2>1, <2>3, <2>4, <2>6 DEF r, TpAdds
  <1>4. CASE ~cond
    <2>1. r = Append(list, new)
      BY <1>2, <1>4
    <2>2. new \in TpBlock(n)
      BY DEF TpBlock, TpVoices
    <2> HIDE DEF new, r, cond
    <2>3. r \in Seq(TpBlock(n)) /\ Len(r) = m + 1 /\ r[m + 1] = new /\ \A i \in 1..m : r[i] = list[i]
      BY <1>1, <2>1, <2>2
    <2> QED
      BY <2>3 DEF r, new, TpAdds
  <1> QED
    BY <1>3, <1>4

\* The script is the last value of a run over the rows.
TpScriptRun(n, t) ==
    /\ t \in [0..n -> Seq(TpBlock(n))]
    /\ t[0] = <<>> /\ \A k \in 1..n : t[k] = Tp!Added(t[k - 1], k)
    /\ Tp!BuildScript = t[n]

\* Building the script is such a run.
LEMMA TpScriptRuns ==
  ASSUME NEW n \in Nat, DOMAIN utterances = 1..n
  PROVE  \E t : TpScriptRun(n, t)
  <1> DEFINE R == Seq(TpBlock(n))
             w == [k \in DOMAIN utterances |-> k]
             step == [i \in 1..n |-> [a \in R |-> Tp!Added(a, i)]]
             Runs(f) == f = [s \in SUBSET DOMAIN w |->
                                IF s = {} THEN <<>> ELSE Tp!Added(f[s \ {Greatest(s)}], w[Greatest(s)])]
  <1>1. DOMAIN w = 1..n /\ <<>> \in R /\ \A i \in 1..n : w[i] = i
    OBVIOUS
  <1>2. Tp!BuildScript = (CHOOSE f : Runs(f))[DOMAIN w]
    BY DEF Tp!BuildScript, Tp!FoldLeft, Tp!MapThenFoldSet, Tp!Max, Greatest
  <1> HIDE DEF w
  <1>3. step \in [1..n -> [R -> R]]
    <2>1. \A i \in 1..n : \A a \in R : Tp!Added(a, i) \in R
      BY TpAdded
    <2> HIDE DEF R
    <2> QED
      BY <2>1
  <1> HIDE DEF R
  <1>4. PICK g \in [SUBSET (1..n) -> R], t \in [0..n -> R] : RunsLeft(g, t, n, <<>>, step)
    <2> HIDE DEF step
    <2> QED
      BY <1>1, <1>3, FoldFromLeft
  <1>5. /\ \A s \in SUBSET (1..n) : g[s] = IF s = {} THEN <<>> ELSE step[Greatest(s)][g[s \ {Greatest(s)}]]
        /\ t[0] = <<>> /\ \A k \in 1..n : t[k] = step[k][t[k - 1]]
        /\ \A f : Agrees(f, g, n, Greatest) => f[1..n] = t[n]
    BY <1>4 DEF RunsLeft
  <1>6. \A s \in SUBSET (1..n) : s # {} => Greatest(s) \in 1..n /\ g[s \ {Greatest(s)}] \in R
    BY <1>4, GreatestIs
  <1>7. Runs(g)
    <2>1. \A i \in 1..n : \A a \in R : step[i][a] = Tp!Added(a, w[i])
      BY <1>1
    <2> HIDE DEF step
    <2>2. \A s \in SUBSET (1..n) :
            g[s] = IF s = {} THEN <<>> ELSE Tp!Added(g[s \ {Greatest(s)}], w[Greatest(s)])
      BY <1>5, <1>6, <2>1
    <2> QED
      BY <1>1, <1>4, <2>2
  <1>8. Runs(CHOOSE f : Runs(f))
    <2> HIDE DEF Runs
    <2> QED
      BY <1>7
  <1> DEFINE f == CHOOSE f : Runs(f)
  <1>9. Agrees(f, g, n, Greatest)
    <2> HIDE DEF f
    <2>1. \A s \in SUBSET (1..n) :
            f[s] = IF s = {} THEN <<>> ELSE Tp!Added(f[s \ {Greatest(s)}], w[Greatest(s)])
      BY <1>1, <1>8 DEF f
    <2>2. \A s \in SUBSET (1..n) :
            g[s] = IF s = {} THEN <<>> ELSE Tp!Added(g[s \ {Greatest(s)}], w[Greatest(s)])
      BY <1>1, <1>7
    <2> QED
      BY <2>1, <2>2 DEF Agrees
  <1>10. f[DOMAIN w] = t[n]
    <2> HIDE DEF f
    <2> QED
      BY <1>1, <1>5, <1>9
  <1>11. \A k \in 1..n : t[k] = Tp!Added(t[k - 1], k)
    <2>1. \A k \in 1..n : k - 1 \in 0..n /\ t[k - 1] \in R
      BY <1>4
    <2> QED
      BY <1>5, <2>1
  <1> HIDE DEF f, step
  <1>12. TpScriptRun(n, t)
    BY <1>2, <1>4, <1>5, <1>10, <1>11 DEF TpScriptRun, R, f
  <1> QED
    BY <1>12

\* One row after another, and nobody else speaking in either.
TpAfter(k, l) ==
    ~utterances[k].overlap /\ ~utterances[l].overlap /\ utterances[k].end <= utterances[l].start

\* Up to the row k, the last of the last block, the script has every row once, in order, and with
\* its voice; and the rows of a block follow each other.
TpTells(script, k) ==
    /\ \A m \in 1..k : \E b \in 1..Len(script) : \E i \in 1..Len(script[b].of) : script[b].of[i] = m
    /\ \A b \in 1..Len(script) : \A i \in 1..Len(script[b].of) :
           /\ script[b].of[i] \in 1..k /\ script[b].speaker = Tp!Voice(script[b].of[i])
           /\ \A j \in 1..Len(script[b].of) : i < j => script[b].of[i] < script[b].of[j]
    /\ \A b, c \in 1..Len(script) : \A i \in 1..Len(script[b].of) : \A j \in 1..Len(script[c].of) :
           b < c => script[b].of[i] < script[c].of[j]
    /\ Len(script) > 0 => LET last == script[Len(script)].of IN Len(last) > 0 /\ last[Len(last)] = k
    /\ \A b \in 1..Len(script) : \A i, j \in 1..Len(script[b].of) :
           i < j => TpAfter(script[b].of[i], script[b].of[j])

\* Adding the next row keeps this.
LEMMA TpTellsOn ==
  ASSUME NEW n \in Nat, NEW k \in Nat, k + 1 \in 1..n, NEW list \in Seq(TpBlock(n)), NEW r \in Seq(TpBlock(n)),
         TpAdds(r, list, k + 1), TpTells(list, k), TpRows(utterances, nextUtterance), DOMAIN utterances = 1..n
  PROVE  TpTells(r, k + 1)
  <1> DEFINE m == Len(list)
  <1>1. /\ m \in Nat /\ Len(r) \in Nat
        /\ \A b \in 1..m : list[b].of \in Seq(1..n) /\ Len(list[b].of) \in Nat
    <2>1. m \in Nat /\ Len(r) \in Nat /\ \A b \in 1..m : list[b] \in TpBlock(n)
      OBVIOUS
    <2>2. \A b \in 1..m : list[b].of \in Seq(1..n)
      BY <2>1 DEF TpBlock
    <2>3. \A b \in 1..m : Len(list[b].of) \in Nat
      BY <2>2
    <2> QED
      BY <2>1, <2>2, <2>3
  <1>2. \A b \in 1..m : \A i \in 1..Len(list[b].of) : list[b].of[i] \in 1..k /\ list[b].of[i] < k + 1
    <2>1. \A b \in 1..m : \A i \in 1..Len(list[b].of) : list[b].of[i] \in 1..k
      BY DEF TpTells
    <2>2. \A x \in 1..k : x < k + 1
      OBVIOUS
    <2> HIDE DEF m
    <2> QED
      BY <2>1, <2>2
  <1>3. \A x \in 1..k + 1 : x \in 1..k \/ x = k + 1
    OBVIOUS
  <1>3a. \A x \in 1..k : x \in 1..k + 1 /\ x \in DOMAIN utterances
    OBVIOUS
  <1>3b. \A x \in DOMAIN utterances : /\ utterances[x].start \in Nat /\ utterances[x].end \in Nat
                                      /\ utterances[x].start < utterances[x].end
    BY DEF TpRows, TpRow
  <1>3c. k + 1 \in DOMAIN utterances
    OBVIOUS
  <1> HIDE DEF m
  <1>4. CASE /\ Len(r) = m + 1 /\ r[m + 1] = [speaker |-> Tp!Voice(k + 1), of |-> <<k + 1>>]
             /\ \A i \in 1..m : r[i] = list[i]
    <2>1. \A b \in 1..Len(r) : b \in 1..m \/ b = m + 1
      BY <1>1, <1>4
    <2>2. m + 1 \in 1..Len(r) /\ \A b \in 1..m : b \in 1..Len(r)
      BY <1>1, <1>4
    <2>3. /\ r[m + 1].speaker = Tp!Voice(k + 1) /\ Len(r[m + 1].of) = 1
          /\ \A i \in 1..Len(r[m + 1].of) : i = 1 /\ r[m + 1].of[i] = k + 1
      BY <1>4
    <2>4. \A x \in 1..k + 1 : \E b \in 1..Len(r) : \E i \in 1..Len(r[b].of) : r[b].of[i] = x
      <3>1. 1 \in 1..Len(r[m + 1].of) /\ r[m + 1].of[1] = k + 1
        BY <2>3
      <3>2. ASSUME NEW x \in 1..k PROVE \E b \in 1..Len(r) : \E i \in 1..Len(r[b].of) : r[b].of[i] = x
        <4>1. PICK b \in 1..m : \E i \in 1..Len(list[b].of) : list[b].of[i] = x
          BY DEF TpTells, m
        <4> QED
          BY <1>4, <2>2, <4>1
      <3> QED
        BY <1>3, <2>2, <3>1, <3>2
    <2>5. \A b \in 1..Len(r) : \A i \in 1..Len(r[b].of) :
              /\ r[b].of[i] \in 1..k + 1 /\ r[b].speaker = Tp!Voice(r[b].of[i])
              /\ \A j \in 1..Len(r[b].of) : i < j => r[b].of[i] < r[b].of[j]
      <3>1. ASSUME NEW b \in 1..m, NEW i \in 1..Len(r[b].of)
            PROVE  /\ r[b].of[i] \in 1..k + 1 /\ r[b].speaker = Tp!Voice(r[b].of[i])
                   /\ \A j \in 1..Len(r[b].of) : i < j => r[b].of[i] < r[b].of[j]
        <4>1. r[b] = list[b]
          BY <1>4
        <4>2. /\ list[b].of[i] \in 1..k /\ list[b].speaker = Tp!Voice(list[b].of[i])
              /\ \A j \in 1..Len(list[b].of) : i < j => list[b].of[i] < list[b].of[j]
          BY <4>1 DEF TpTells, m
        <4> QED
          BY <1>3a, <4>1, <4>2
      <3>2. \A i \in 1..Len(r[m + 1].of) :
              /\ r[m + 1].of[i] \in 1..k + 1 /\ r[m + 1].speaker = Tp!Voice(r[m + 1].of[i])
              /\ \A j \in 1..Len(r[m + 1].of) : ~(i < j)
        BY <2>3
      <3> QED
        BY <2>1, <3>1, <3>2
    <2>6. \A b, c \in 1..Len(r) : \A i \in 1..Len(r[b].of) : \A j \in 1..Len(r[c].of) :
              b < c => r[b].of[i] < r[c].of[j]
      <3>1. \A b, c \in 1..Len(r) : b < c => b \in 1..m
        BY <1>1, <1>4
      <3>2. ASSUME NEW b \in 1..m, NEW c \in 1..m, b < c
            PROVE  \A i \in 1..Len(r[b].of) : \A j \in 1..Len(r[c].of) : r[b].of[i] < r[c].of[j]
        BY <1>4, <3>2 DEF TpTells, m
      <3>3. ASSUME NEW b \in 1..m
            PROVE  \A i \in 1..Len(r[b].of) : \A j \in 1..Len(r[m + 1].of) : r[b].of[i] < r[m + 1].of[j]
        BY <1>2, <1>4, <2>3
      <3> QED
        BY <2>1, <3>1, <3>2, <3>3
    <2>7. LET last == r[Len(r)].of IN Len(last) > 0 /\ last[Len(last)] = k + 1
      BY <1>4, <2>3
    <2>8. \A b \in 1..Len(r) : \A i, j \in 1..Len(r[b].of) : i < j => TpAfter(r[b].of[i], r[b].of[j])
      <3>1. \A b \in 1..m : \A i, j \in 1..Len(r[b].of) : i < j => TpAfter(r[b].of[i], r[b].of[j])
        BY <1>4 DEF TpTells, m
      <3>2. \A i, j \in 1..Len(r[m + 1].of) : ~(i < j)
        BY <2>3
      <3> QED
        BY <2>1, <3>1, <3>2
    <2> QED
      BY <2>4, <2>5, <2>6, <2>7, <2>8 DEF TpTells
  <1>5. CASE /\ m > 0 /\ Len(r) = m /\ r[m].speaker = Tp!Voice(k + 1) /\ list[m].speaker = Tp!Voice(k + 1)
             /\ r[m].of = Append(list[m].of, k + 1) /\ Tp!Adjoins(utterances[k], utterances[k + 1])
             /\ \A i \in 1..m - 1 : r[i] = list[i]
    <2> DEFINE q == Len(list[m].of)
    <2>0. m \in 1..m /\ q \in Nat /\ list[m].of \in Seq(1..n)
      BY <1>1, <1>5
    <2> HIDE DEF q
    <2>1. \A b \in 1..m : b \in 1..m - 1 \/ b = m
      BY <1>1
    <2>2. /\ Len(r[m].of) = q + 1 /\ r[m].of[q + 1] = k + 1
          /\ \A i \in 1..q : r[m].of[i] = list[m].of[i]
      <3> DEFINE l == list[m].of
      <3>1. l \in Seq(1..n) /\ Len(l) = q /\ r[m].of = Append(l, k + 1)
        BY <1>5, <2>0 DEF q
      <3> HIDE DEF l
      <3>2. Len(Append(l, k + 1)) = q + 1 /\ Append(l, k + 1)[q + 1] = k + 1 /\ \A i \in 1..q : Append(l, k + 1)[i] = l[i]
        BY <2>0, <3>1
      <3> QED
        BY <3>1, <3>2 DEF l
    <2>3. \A i \in 1..Len(r[m].of) : i \in 1..q \/ i = q + 1
      BY <2>0, <2>2
    <2>3a. q + 1 \in 1..Len(r[m].of) /\ \A i \in 1..q : i \in 1..Len(r[m].of)
      BY <2>0, <2>2
    <2>4. \A x \in 1..k + 1 : \E b \in 1..Len(r) : \E i \in 1..Len(r[b].of) : r[b].of[i] = x
      <3>2. ASSUME NEW x \in 1..k PROVE \E b \in 1..m : \E i \in 1..Len(r[b].of) : r[b].of[i] = x
        <4>1. PICK b \in 1..m : \E i \in 1..Len(list[b].of) : list[b].of[i] = x
          BY DEF TpTells, m
        <4>2. CASE b \in 1..m - 1
          BY <1>5, <4>1, <4>2
        <4>3. CASE b = m
          <5>1. PICK i \in 1..q : list[m].of[i] = x
            BY <4>1, <4>3 DEF q
          <5> QED
            BY <2>0, <2>2, <2>3a, <5>1
        <4> QED
          BY <2>1, <4>2, <4>3
      <3>3. \E i \in 1..Len(r[m].of) : r[m].of[i] = k + 1
        BY <2>2, <2>3a
      <3>4. \A x \in 1..k + 1 : \E b \in 1..m : \E i \in 1..Len(r[b].of) : r[b].of[i] = x
        BY <1>3, <2>0, <3>2, <3>3
      <3> QED
        BY <1>5, <3>4
    <2>5. \A b \in 1..m : \A i \in 1..Len(r[b].of) :
              /\ r[b].of[i] \in 1..k + 1 /\ r[b].speaker = Tp!Voice(r[b].of[i])
              /\ \A j \in 1..Len(r[b].of) : i < j => r[b].of[i] < r[b].of[j]
      <3>1. ASSUME NEW b \in 1..m - 1, NEW i \in 1..Len(r[b].of)
            PROVE  /\ r[b].of[i] \in 1..k + 1 /\ r[b].speaker = Tp!Voice(r[b].of[i])
                   /\ \A j \in 1..Len(r[b].of) : i < j => r[b].of[i] < r[b].of[j]
        <4>1. r[b] = list[b] /\ b \in 1..m
          BY <1>1, <1>5
        <4>2. /\ list[b].of[i] \in 1..k /\ list[b].speaker = Tp!Voice(list[b].of[i])
              /\ \A j \in 1..Len(list[b].of) : i < j => list[b].of[i] < list[b].of[j]
          BY <4>1 DEF TpTells, m
        <4> QED
          BY <1>3a, <4>1, <4>2
      <3>2. \A i \in 1..q :
                /\ list[m].of[i] \in 1..k /\ list[m].speaker = Tp!Voice(list[m].of[i])
                /\ \A j \in 1..q : i < j => list[m].of[i] < list[m].of[j]
        BY <2>0 DEF TpTells, m, q
      <3>3. ASSUME NEW i \in 1..Len(r[m].of)
            PROVE  /\ r[m].of[i] \in 1..k + 1 /\ r[m].speaker = Tp!Voice(r[m].of[i])
                   /\ \A j \in 1..Len(r[m].of) : i < j => r[m].of[i] < r[m].of[j]
        <4>1. CASE i \in 1..q
          <5>1. r[m].of[i] = list[m].of[i] /\ list[m].of[i] \in 1..k /\ list[m].speaker = Tp!Voice(list[m].of[i])
            BY <2>2, <3>2, <4>1
          <5>2. list[m].of[i] < k + 1
            BY <5>1
          <5>3. \A j \in 1..Len(r[m].of) : i < j => r[m].of[i] < r[m].of[j]
            BY <2>2, <2>3, <3>2, <4>1, <5>1, <5>2
          <5> QED
            BY <1>3a, <1>5, <5>1, <5>3
        <4>2. CASE i = q + 1
          <5>1. \A j \in 1..Len(r[m].of) : ~(i < j)
            BY <2>0, <2>2, <4>2
          <5>2. r[m].of[i] = k + 1 /\ k + 1 \in 1..k + 1
            BY <2>2, <4>2
          <5> QED
            BY <1>5, <5>1, <5>2
        <4> QED
          BY <2>3, <4>1, <4>2
      <3> QED
        BY <2>1, <3>1, <3>3
    <2>6. \A b, c \in 1..m : \A i \in 1..Len(r[b].of) : \A j \in 1..Len(r[c].of) :
              b < c => r[b].of[i] < r[c].of[j]
      <3>1. ASSUME NEW b \in 1..m, NEW c \in 1..m, b < c, NEW i \in 1..Len(r[b].of), NEW j \in 1..Len(r[c].of)
            PROVE  r[b].of[i] < r[c].of[j]
        <4>0. b \in 1..m - 1
          BY <1>1, <3>1
        <4>1. r[b] = list[b] /\ b \in 1..m - 1
          BY <1>5, <4>0
        <4>2. CASE c \in 1..m - 1
          <5>1. r[c] = list[c]
            BY <1>5, <4>2
          <5> QED
            BY <3>1, <4>1, <5>1 DEF TpTells, m
        <4>3. CASE c = m /\ j \in 1..q
          <5>1. r[c].of[j] = list[c].of[j] /\ j \in 1..Len(list[c].of)
            BY <2>2, <4>3 DEF q
          <5> QED
            BY <3>1, <4>1, <5>1 DEF TpTells, m
        <4>4. CASE c = m /\ j = q + 1
          BY <1>2, <2>2, <4>1, <4>4
        <4> QED
          BY <2>1, <2>3, <4>2, <4>3, <4>4
      <3> QED
        BY <3>1
    <2>7. Len(r[m].of) > 0 /\ r[m].of[Len(r[m].of)] = k + 1
      BY <2>0, <2>2
    <2>8. q > 0 /\ list[m].of[q] = k /\ k \in 1..k
      <3>1. q > 0 /\ list[m].of[q] = k
        BY <1>5 DEF TpTells, m, q
      <3>2. q \in 1..q
        BY <2>0, <3>1
      <3> QED
        BY <1>2, <2>0, <3>1, <3>2 DEF q
    <2>9. \A b \in 1..m : \A i, j \in 1..Len(r[b].of) : i < j => TpAfter(r[b].of[i], r[b].of[j])
      <3>1. \A b \in 1..m - 1 : \A i, j \in 1..Len(r[b].of) : i < j => TpAfter(r[b].of[i], r[b].of[j])
        <4>1. \A b \in 1..m - 1 : r[b] = list[b] /\ b \in 1..m
          BY <1>1, <1>5
        <4> QED
          BY <4>1 DEF TpTells, m
      <3>2. \A i, j \in 1..q : i < j => TpAfter(r[m].of[i], r[m].of[j])
        <4>1. \A i, j \in 1..q : i < j => TpAfter(list[m].of[i], list[m].of[j])
          BY <2>0 DEF TpTells, m, q
        <4> QED
          BY <2>2, <4>1
      <3>3. TpAfter(k, k + 1)
        <4>1. /\ ~utterances[k].overlap /\ ~utterances[k + 1].overlap
              /\ 0 <= utterances[k + 1].start - utterances[k].end
          BY <1>5 DEF Tp!Adjoins
        <4>2. utterances[k].end \in Nat /\ utterances[k + 1].start \in Nat
          BY <1>3a, <1>3b, <1>3c, <2>8
        <4> QED
          BY <4>1, <4>2 DEF TpAfter
      <3>4. ASSUME NEW i \in 1..q PROVE TpAfter(r[m].of[i], k + 1)
        <4>1. r[m].of[i] = list[m].of[i] /\ list[m].of[i] \in 1..k
          BY <1>2, <2>0, <2>2 DEF q
        <4>2. CASE i = q
          BY <2>8, <3>3, <4>1, <4>2
        <4>3. CASE i # q
          <5>1. i < q /\ q \in 1..q
            BY <2>0, <4>3
          <5> DEFINE x == list[m].of[i]
          <5>2. TpAfter(x, k) /\ x \in 1..k
            BY <2>0, <2>8, <4>1, <5>1 DEF TpTells, m, q
          <5> HIDE DEF x
          <5>3. TpAfter(x, k + 1)
            <6>1. /\ utterances[x].end \in Nat /\ utterances[k].start < utterances[k].end
                  /\ utterances[k].start \in Nat /\ utterances[k].end \in Nat /\ utterances[k + 1].start \in Nat
              BY <1>3a, <1>3b, <1>3c, <2>8, <5>2
            <6> QED
              BY <3>3, <5>2, <6>1 DEF TpAfter
          <5> QED
            BY <4>1, <5>3 DEF x
        <4> QED
          BY <4>2, <4>3
      <3>5. \A i, j \in 1..Len(r[m].of) : i < j => TpAfter(r[m].of[i], r[m].of[j])
        <4>1. ASSUME NEW i \in 1..Len(r[m].of), NEW j \in 1..Len(r[m].of), i < j
              PROVE  TpAfter(r[m].of[i], r[m].of[j])
          <5>1. i \in 1..q
            BY <2>0, <2>2, <2>3, <4>1
          <5> QED
            BY <2>2, <2>3, <3>2, <3>4, <4>1, <5>1
        <4> QED
          BY <4>1
      <3> QED
        BY <2>1, <3>1, <3>5
    <2> QED
      BY <1>5, <2>4, <2>5, <2>6, <2>7, <2>9 DEF TpTells
  <1> QED
    <2>1. (k + 1) - 1 = k
      OBVIOUS
    <2> QED
      BY <1>4, <1>5, <2>1 DEF TpAdds, m

\* A script has every row once and in order; speech whose speaker a user has chosen keeps it; and
\* in a block one person speaks at a time.
LEMMA TpScriptKeepsAll == ASSUME TpRows(utterances, nextUtterance) PROVE Tp!ScriptKeepsAll
  <1>1. PICK n \in Nat : DOMAIN utterances = 1..n
    BY DEF TpRows
  <1>2. PICK t : TpScriptRun(n, t)
    BY <1>1, TpScriptRuns
  <1>3. /\ t \in [0..n -> Seq(TpBlock(n))]
        /\ t[0] = <<>> /\ \A k \in 1..n : t[k] = Tp!Added(t[k - 1], k)
        /\ Tp!BuildScript = t[n]
    BY <1>2 DEF TpScriptRun
  <1> DEFINE fine == {k \in 0..n : TpTells(t[k], k)}
  <1>4. 0 \in fine
    <2>1. Len(t[0]) = 0 /\ 0 \in 0..n
      BY <1>3
    <2> QED
      BY <2>1 DEF TpTells
  <1>5. ASSUME NEW k \in 0..n, k < n, k \in fine PROVE k + 1 \in fine
    <2>1. k \in Nat /\ k + 1 \in 1..n /\ k + 1 \in 0..n /\ (k + 1) - 1 = k /\ TpTells(t[k], k)
      BY <1>5
    <2>2. t[k] \in Seq(TpBlock(n)) /\ t[k + 1] = Tp!Added(t[(k + 1) - 1], k + 1) /\ t[k + 1] \in Seq(TpBlock(n))
      BY <1>3, <2>1
    <2>3. TpAdds(t[k + 1], t[k], k + 1)
      BY <2>1, <2>2, TpAdded
    <2>4. TpTells(t[k + 1], k + 1)
      BY <1>1, <2>1, <2>2, <2>3, TpTellsOn
    <2> QED
      BY <2>1, <2>4
  <1>6. n \in fine
    <2> HIDE DEF fine
    <2>1. \A k \in 0..n : k \in fine
      BY <1>4, <1>5, Counting
    <2> QED
      BY <2>1
  <1> DEFINE s == Tp!BuildScript
  <1>7. s \in Seq(TpBlock(n)) /\ TpTells(s, n)
    BY <1>3, <1>6
  <1> HIDE DEF s, fine
  <1>8. /\ DOMAIN s = 1..Len(s)
        /\ \A b \in 1..Len(s) : DOMAIN s[b].of = 1..Len(s[b].of)
    <2>1. \A b \in 1..Len(s) : s[b] \in TpBlock(n)
      BY <1>7
    <2>2. \A b \in 1..Len(s) : s[b].of \in Seq(1..n)
      BY <2>1 DEF TpBlock
    <2> QED
      BY <1>7, <2>2
  <1>9. \A k \in DOMAIN utterances : \E b \in DOMAIN s : k \in Tp!ToSet(s[b].of)
    BY <1>1, <1>7, <1>8 DEF TpTells, Tp!ToSet
  <1>10. \A b, c \in DOMAIN s : \A i \in DOMAIN s[b].of, j \in DOMAIN s[c].of :
            b < c \/ (b = c /\ i < j) => s[b].of[i] < s[c].of[j]
    <2>1. ASSUME NEW b \in 1..Len(s), NEW c \in 1..Len(s), NEW i \in 1..Len(s[b].of), NEW j \in 1..Len(s[c].of),
                 b < c \/ (b = c /\ i < j)
          PROVE  s[b].of[i] < s[c].of[j]
      <3>1. CASE b < c
        BY <1>7, <3>1 DEF TpTells
      <3>2. CASE b = c /\ i < j
        BY <1>7, <3>2 DEF TpTells
      <3> QED
        BY <2>1, <3>1, <3>2
    <2> QED
      BY <1>8, <2>1
  <1>11. ASSUME NEW k \in DOMAIN utterances, "speaker" \in utterances[k].manual
         PROVE  Tp!Voice(k) = utterances[k].speaker
    <2>1. \A i, j \in DOMAIN utterances : i <= k /\ k <= j => ~Tp!Absorbed(i, j)
      <3>1. ASSUME NEW i \in DOMAIN utterances, NEW j \in DOMAIN utterances, i <= k, k <= j
            PROVE  ~Tp!Open(i, j)
        <4>1. k \in i..j
          BY <1>1, <3>1
        <4> QED
          BY <1>11, <4>1 DEF Tp!Open
      <3> QED
        BY <3>1 DEF Tp!Absorbed
    <2> QED
      BY <2>1 DEF Tp!Voice
  <1>12. \A b \in DOMAIN s : \A k \in Tp!ToSet(s[b].of) :
            "speaker" \in utterances[k].manual => s[b].speaker = utterances[k].speaker
    <2>1. \A b \in DOMAIN s : \A k \in Tp!ToSet(s[b].of) : k \in 1..n /\ s[b].speaker = Tp!Voice(k)
      <3>1. ASSUME NEW b \in 1..Len(s), NEW i \in 1..Len(s[b].of)
            PROVE  s[b].of[i] \in 1..n /\ s[b].speaker = Tp!Voice(s[b].of[i])
        BY <1>7 DEF TpTells
      <3> QED
        BY <1>8, <3>1 DEF Tp!ToSet
    <2> QED
      BY <1>1, <1>11, <2>1
  <1>13. \A b \in DOMAIN s : \A k, l \in Tp!ToSet(s[b].of) :
            k < l => /\ ~utterances[k].overlap /\ ~utterances[l].overlap
                     /\ utterances[k].end <= utterances[l].start
    <2>1. ASSUME NEW b \in 1..Len(s), NEW i \in 1..Len(s[b].of), NEW j \in 1..Len(s[b].of),
                 s[b].of[i] < s[b].of[j]
          PROVE  TpAfter(s[b].of[i], s[b].of[j])
      <3>1. s[b].of[i] \in 1..n /\ s[b].of[j] \in 1..n
        BY <1>7 DEF TpTells
      <3>2. i < j
        <4>1. ~(j < i)
          <5>1. j < i => s[b].of[j] < s[b].of[i]
            BY <1>7 DEF TpTells
          <5> QED
            BY <2>1, <3>1, <5>1
        <4>2. i # j
          BY <2>1, <3>1
        <4>3. i \in Int /\ j \in Int
          OBVIOUS
        <4> QED
          BY <4>1, <4>2, <4>3
      <3> QED
        BY <1>7, <3>2 DEF TpTells
    <2> QED
      BY <1>8, <2>1 DEF Tp!ToSet, TpAfter
  <1> QED
    BY <1>9, <1>10, <1>12, <1>13 DEF Tp!ScriptKeepsAll, s

-----------------------------------------------------------------------------
(* The engine, the ids and the transcript in the whole specification       *)

\* A step of BackendServices is a step of each of these modules, or leaves it alone.
LEMMA SpeechSteps == ASSUME [Next]_all PROVE [Sr!Next]_Sr!srVars /\ [Sm!Next]_Sm!smVars
  <1> USE DEF all, sr, sm, Rest, Sr!srVars, Sm!smVars
  <1>1. [Sr!Next]_Sr!srVars
    BY DEF Next, Uploading, Capturing, Managing
  <1>2. [Sm!Next]_Sm!smVars
    BY DEF Next, Uploading, Capturing, Managing
  <1> QED
    BY <1>1, <1>2

\* Through failing installations and loads, stops and restarts the engine in use is the one that
\* was selected and can be loaded, and no worker process is left (RuntimeHolds): for all engines,
\* models, numbers of jobs and of stops.
THEOREM RuntimeIsSafe == Spec => []RuntimeHolds
  <1>1. Init => SrInv
    BY SrInit DEF Init
  <1>2. SrInv /\ [Next]_all => SrInv'
    BY SpeechSteps, SrStep
  <1>3. SrInv => RuntimeHolds
    BY SrHolds DEF RuntimeHolds
  <1> QED
    BY <1>1, <1>2, <1>3, PTL DEF Spec

\* However analyses follow each other, the evidence never speaks for two speakers at a time: the
\* part of TranscriptHolds that decides which id a voice gets counts nothing twice.
THEOREM EvidenceStaysExclusive == Spec => []Sm!EvidenceIsExclusive
  <1>1. Init => SmInv
    BY DEF Init, Sm!Init, SmInv, Sm!EvidenceIsExclusive
  <1>2. SmInv /\ [Next]_all => SmInv'
    BY SpeechSteps, SmStep
  <1>3. SmInv => Sm!EvidenceIsExclusive
    BY DEF SmInv
  <1> QED
    BY <1>1, <1>2, <1>3, PTL DEF Spec

\* Every step of the backend is a step of TranscriptPublishing or leaves its state alone.
LEMMA PublishingSteps == ASSUME [Next]_all PROVE [Tp!Next]_Tp!tpVars
  BY DEF Next, Uploading, Capturing, Managing, all, tp, Rest, Tp!tpVars

\* The invariant holds in every state of the backend.
LEMMA PublishingInvariant == Spec => []TpInv
  <1>1. Init => TpInv
    BY TpInit DEF Init
  <1>2. TpInv /\ [Next]_all => TpInv'
    BY PublishingSteps, TpStep
  <1> QED
    BY <1>1, <1>2, PTL DEF Spec

\* What a user has read as final, or has corrected, stays and is told by nothing else, and a
\* correction changes only what its user has read (ReadTextStays): through every number and order of
\* passes, readings and corrections, whether the words of a pass overlap or not.
THEOREM ReadTextIsSafe == Spec => ReadTextStays
  <1>1. TpInv /\ [Next]_all => [TpCorrectionsStay]_Tp!tpVars
    BY PublishingSteps, TpStep
  <1>2. TpInv /\ [Next]_all => [corrections' > corrections => seen \in Tp!ToSet(utterances)]_Tp!tpVars
    BY PublishingSteps, TpStep
  <1>2a. TpInv /\ [Next]_all => [passes' > passes => TpLeft(utterances')]_Tp!tpVars
    BY PublishingSteps, TpStep
  <1>3. Spec => Tp!CorrectionsStay
    BY PublishingInvariant, <1>1, PTL DEF Spec, Tp!CorrectionsStay, TpCorrectionsStay
  <1>4. Spec => Tp!CorrectsWhatWasRead
    BY PublishingInvariant, <1>2, PTL DEF Spec, Tp!CorrectsWhatWasRead
  <1>5. Spec => Tp!LeftToCorrections
    BY PublishingInvariant, <1>2a, PTL DEF Spec, Tp!LeftToCorrections, TpLeft
  <1> QED
    BY StableWordsAreSafe, <1>3, <1>4, <1>5, PTL DEF ReadTextStays

\* The events and the script tell what the transcript tells, every utterance has an id of its own,
\* and two voices are never given one name (TranscriptHolds): for recordings of every length, any
\* number of words, which may overlap, all thresholds, and every number of passes, corrections,
\* analyses, speakers and labels.
THEOREM TranscriptIsSafe == Spec => []TranscriptHolds
  <1>1. Init => SmInv2
    BY SmKnownInit DEF Init
  <1>2. SmInv2 /\ [Next]_all => SmInv2'
    BY SpeechSteps, SmNames
  <1>3. TpInv => Tp!TypeOK /\ Tp!EventsTellTheSession /\ Tp!OneRowEach /\ Tp!ScriptKeepsAll
    BY TpHolds, TpScriptKeepsAll DEF TpInv
  <1>4. SmInv2 => Sm!TypeOK /\ Sm!SpeakersStayApart
    BY DEF SmInv2, SmKnown
  <1>5. TpInv /\ SmInv2 /\ Sm!EvidenceIsExclusive => TranscriptHolds
    BY <1>3, <1>4 DEF TranscriptHolds
  <1> QED
    BY PublishingInvariant, EvidenceStaysExclusive, <1>1, <1>2, <1>5, PTL DEF Spec
=============================================================================
