--------------------------- MODULE ImageCache_proofs ---------------------------
(* What ImageCache promises, for every sequence of image sizes and every       *)
(* number of attempts.                                                         *)
EXTENDS ImageCache, SequenceTheorems, TLAPS

USE SizeAssumption, AttemptsAssumption

\* Every version has at least one block.
LEMMA Sizes == \A v \in Versions : Size[v] \in Nat \ {0}
  BY DEF Versions

\* The image of a version is a file of that version's blocks, and not empty.
LEMMA Images ==
  \A v \in Versions :
    /\ Image(v) \in Seq(Versions)
    /\ Len(Image(v)) = Size[v]
    /\ Image(v) # <<>>
  BY Sizes DEF Image

\* A file that holds as many blocks as the published version has, all of them
\* of that version, is its image.
LEMMA FreshIsImage ==
  ASSUME TypeOK, Fresh, Len(part) >= Size[upstream]
  PROVE  part = Image(upstream)
<1>0. part \in Seq(Versions) /\ upstream \in Versions /\ Len(part) \in Nat
  BY DEF TypeOK
<1>1. Size[upstream] \in Nat /\ Len(part) = Size[upstream]
  BY <1>0, Images DEF Fresh
<1>2. Image(upstream) \in Seq(Versions) /\ Len(Image(upstream)) = Len(part)
  BY <1>0, <1>1, Images
<1>3. \A i \in 1..Len(part) : part[i] = Image(upstream)[i]
  BY <1>1 DEF Fresh, Image
<1> QED
  BY <1>0, <1>2, <1>3, SeqEqual

\* The initial state satisfies the invariant.
LEMMA InitInv == Init => CacheInv
<1> SUFFICES ASSUME Init PROVE CacheInv
  OBVIOUS
<1>1. 1 \in Versions /\ Size[1] \in Nat \ {0}
  BY Images DEF Versions
<1>2. TypeOK
  BY <1>1 DEF Init, TypeOK, Active
<1>3. Fresh /\ ~Doomed
  BY <1>1 DEF Init, Fresh, Doomed
<1> QED
  BY <1>2, <1>3 DEF Init, CacheInv, OneFile, PlacedIsPublished, ImageIsPublished, Budget,
                    Failures, Count

-----------------------------------------------------------------------------
(* What a step may do. *)

\* A file in the sense of TypeOK.
IsFile(f) == f \in Seq(Versions) /\ \E v \in Versions : Len(f) <= Size[v]

\* No step writes anything into a file but a block of the open response at the end of
\* part; what else it does to the files is to rename, link, copy or remove them.
FileMoves ==
  /\ cached' \in {cached, part, <<>>}
  /\ part' \in {part, <<>>} \/ Receive
  /\ \/ target' \in {target, cached, <<>>}
     \/ \E n \in 0..Len(cached) : target' = SubSeq(cached, 1, n)

\* Every step treats the files in one of these ways.
LEMMA Moves == [Next]_vars => FileMoves
<1> SUFFICES ASSUME [Next]_vars PROVE FileMoves
  OBVIOUS
<1> USE DEF FileMoves
<1>1. CASE ReuseTarget
  BY <1>1
     DEF ReuseTarget, Goto, Fail, NoSums, Smooth, Disturb, NoResponse, files, history
<1>2. CASE ReuseCached
  BY <1>2
     DEF ReuseCached, Goto, Fail, NoSums, Smooth, Disturb, NoResponse, files, history
<1>3. CASE VerifyDownload
  BY <1>3
     DEF VerifyDownload, Goto, Fail, NoSums, Smooth, Disturb, NoResponse, files, history
<1>4. CASE Place
  BY <1>4 DEF Place, Goto, Smooth, NoResponse, history
<1>5. CASE VerifyCopy
  BY <1>5 DEF VerifyCopy, Goto, Fail, NoSums, Smooth, Disturb, NoResponse, files, history
<1>6. CASE Request
  BY <1>6
     DEF Request, Whole, Rest, NoMore, Respond, Rename, Goto, Smooth, NoResponse, history
<1>7. CASE Receive
  BY <1>7 DEF Receive, Smooth, history
<1>8. CASE BodyOver
  BY <1>8 DEF BodyOver, Rename, Goto, Smooth, NoResponse, history
<1>9. CASE BodyShort
  BY <1>9 DEF BodyShort, Rename, Goto, Disturb, NoResponse, history
<1>10. CASE Break
  BY <1>10 DEF Break, Goto, Smooth, NoResponse, files, history
<1>11. CASE GiveUp
  BY <1>11 DEF GiveUp, Fail, Goto, Disturb, NoResponse, files, history
<1>12. CASE Kill
  BY <1>12 DEF Kill, Goto, Disturb, NoResponse, history
<1>13. CASE Retry
  BY <1>13 DEF Retry, NoResponse, files
<1>14. CASE AttemptsOver
  BY <1>14 DEF AttemptsOver, Goto, Smooth, NoResponse, files, history
<1>15. CASE Again
  BY <1>15 DEF Again, NoResponse
<1>16. CASE Publish
  BY <1>16 DEF Publish, Disturb, NoResponse, files, history
<1>17. CASE UNCHANGED vars
  BY <1>17 DEF vars, files, history
<1> QED
  BY <1>1, <1>2, <1>3, <1>4, <1>5, <1>6, <1>7, <1>8, <1>9, <1>10, <1>11, <1>12, <1>13,
     <1>14, <1>15, <1>16, <1>17 DEF Next

\* A prefix of a file is a file, and so is the file that Receive has lengthened.
LEMMA PrefixIsFile ==
  ASSUME NEW f, IsFile(f), NEW n \in 0..Len(f)
  PROVE  IsFile(SubSeq(f, 1, n))
<1>1. f \in Seq(Versions) /\ Len(f) \in Nat
  BY DEF IsFile
<1>2. \A i \in 1..n : f[i] \in Versions
  BY <1>1, ElementOfSeq
<1>3. SubSeq(f, 1, n) \in Seq(Versions) /\ Len(SubSeq(f, 1, n)) = n
  BY <1>1, <1>2, SubSeqProperties
<1>4. PICK v \in Versions : Len(f) <= Size[v]
  BY DEF IsFile
<1>5. n <= Size[v]
  BY <1>1, <1>4, Sizes
<1> QED
  BY <1>3, <1>4, <1>5 DEF IsFile

\* A received block goes to the end of part, and within the length of its version.
LEMMA ReceiveIsFile ==
  ASSUME TypeOK, OneFile, Receive
  PROVE  IsFile(part')
<1>1. part \in Seq(Versions) /\ got \in Versions /\ Len(part) + 1 <= Size[got]
  BY DEF TypeOK, OneFile, Receive
<1>2. part' = Append(part, got)
  BY DEF Receive
<1> QED
  BY <1>1, <1>2 DEF IsFile

\* The files keep their type.
LEMMA FilesStep ==
  TypeOK /\ OneFile /\ [Next]_vars => IsFile(cached') /\ IsFile(part') /\ IsFile(target')
<1> SUFFICES ASSUME TypeOK, OneFile, [Next]_vars
             PROVE  IsFile(cached') /\ IsFile(part') /\ IsFile(target')
  OBVIOUS
<1>1. IsFile(cached) /\ IsFile(part) /\ IsFile(target)
  BY DEF TypeOK, IsFile
<1>2. IsFile(<<>>)
  BY Images DEF IsFile, Versions
<1> QED
  BY <1>1, <1>2, PrefixIsFile, ReceiveIsFile, Moves DEF FileMoves

\* So do the other variables.
OthersOK ==
  /\ upstream \in Versions
  /\ pc \in Active \cup {"ok", "failed", "gaveup"}
  /\ got \in Versions
  /\ at \in 1..Size[got] + 1
  /\ attempt \in 1..MaxAttempts
  /\ began \in 1..upstream
  /\ bad \in Nat

\* The other variables keep their types.
LEMMA OthersStep == TypeOK /\ [Next]_vars => OthersOK'
<1> SUFFICES ASSUME OthersOK, part \in Seq(Versions), [Next]_vars PROVE OthersOK'
  BY DEF TypeOK, OthersOK
<1> USE DEF OthersOK
<1>1. CASE ReuseTarget
  <2>1. UNCHANGED <<upstream, got, at, attempt, began>> /\ bad' \in {bad, bad + 1}
        /\ pc' \in Active \cup {"ok", "failed"}
    BY <1>1 DEF ReuseTarget, Goto, Fail, NoSums, Smooth, Disturb, NoResponse, files,
       history, Active
  <2> QED
    BY <2>1
<1>2. CASE ReuseCached
  <2>1. UNCHANGED <<upstream, got, at, attempt, began>> /\ bad' \in {bad, bad + 1}
        /\ pc' \in Active \cup {"ok", "failed"}
    BY <1>2 DEF ReuseCached, Goto, Fail, NoSums, Smooth, Disturb, NoResponse, files,
       history, Active
  <2> QED
    BY <2>1
<1>3. CASE VerifyDownload
  <2>1. UNCHANGED <<upstream, got, at, attempt, began>> /\ bad' \in {bad, bad + 1}
        /\ pc' \in Active \cup {"ok", "failed"}
    BY <1>3 DEF VerifyDownload, Goto, Fail, NoSums, Smooth, Disturb, NoResponse, files,
       history, Active
  <2> QED
    BY <2>1
<1>4. CASE Place
  BY <1>4, Images DEF Place, Goto, Smooth, NoResponse, history, Active, Versions
<1>5. CASE VerifyCopy
  <2>1. UNCHANGED <<upstream, got, at, attempt, began>> /\ bad' \in {bad, bad + 1}
        /\ pc' \in Active \cup {"ok", "failed"}
    BY <1>5 DEF VerifyCopy, Goto, Fail, NoSums, Smooth, Disturb, NoResponse, files,
       history, Active
  <2> QED
    BY <2>1
<1>6. CASE Request
  <2>0. Size[upstream] \in Nat /\ Size[upstream] > 0 /\ Len(part) \in Nat
    BY Sizes
  <2>1. CASE Whole
    BY <1>6, <2>0, <2>1 DEF Request, Whole, Respond, Goto, Smooth, history, Active
  <2>2. CASE Rest
    <3>1. Len(part) \in Nat /\ Len(part) + 1 <= Size[upstream]
      BY <2>0, <2>2 DEF Rest
    <3> QED
      BY <1>6, <2>0, <2>2, <3>1 DEF Request, Rest, Respond, Goto, Smooth, history, Active
  <2>3. CASE NoMore
    BY <1>6, <2>3 DEF Request, NoMore, Rename, Goto, Smooth, NoResponse, history, Active
  <2> QED
    BY <1>6, <2>1, <2>2, <2>3 DEF Request
<1>7. CASE Receive
  <2>1. at' = at + 1 /\ at <= Size[got] /\ at \in Nat /\ Size[got] \in Nat
    BY <1>7, Sizes DEF Receive
  <2> QED
    BY <1>7, <2>1 DEF Receive, Smooth, history, Active
<1>8. CASE BodyOver
  BY <1>8, Images
     DEF BodyOver, Rename, Goto, Smooth, NoResponse, history, Active, Versions
<1>9. CASE BodyShort
  BY <1>9, Images
     DEF BodyShort, Rename, Goto, Disturb, NoResponse, history, Active, Versions
<1>10. CASE Break
  BY <1>10, Images DEF Break, Goto, Smooth, NoResponse, files, history, Active, Versions
<1>11. CASE GiveUp
  BY <1>11, Images
     DEF GiveUp, Fail, Goto, Disturb, NoResponse, files, history, Active, Versions
<1>12. CASE Kill
  BY <1>12, Images DEF Kill, Goto, Disturb, NoResponse, history, Active, Versions
<1>13. CASE Retry
  BY <1>13, Images DEF Retry, NoResponse, files, Active, Versions
<1>14. CASE AttemptsOver
  BY <1>14, Images
     DEF AttemptsOver, Goto, Smooth, NoResponse, files, history, Active, Versions
<1>15. CASE Again
  BY <1>15, Images DEF Again, NoResponse, Active, Versions
<1>16. CASE Publish
  BY <1>16, Images DEF Publish, Disturb, NoResponse, files, history, Active, Versions
<1>17. CASE UNCHANGED vars
  BY <1>17 DEF vars, files, history, Active, Versions
<1> QED
  BY <1>1, <1>2, <1>3, <1>4, <1>5, <1>6, <1>7, <1>8, <1>9, <1>10, <1>11, <1>12, <1>13,
     <1>14, <1>15, <1>16, <1>17 DEF Next

\* TypeOK is preserved.
LEMMA TypeStep == TypeOK /\ OneFile /\ [Next]_vars => TypeOK'
  BY FilesStep, OthersStep DEF TypeOK, OthersOK, IsFile

\* OneFile is preserved: download is reached only once the cache is empty.
LEMMA OneFileStep == CacheInv /\ [Next]_vars => OneFile'
<1> SUFFICES ASSUME TypeOK, OneFile, PlacedIsPublished, [Next]_vars PROVE OneFile'
  BY DEF CacheInv
<1> USE DEF OneFile
<1>1. CASE ReuseTarget
  BY <1>1, Images
     DEF ReuseTarget, Goto, Fail, NoSums, Smooth, Disturb, NoResponse, files, history,
         TypeOK, Matches
<1>2. CASE ReuseCached
  BY <1>2, Images
     DEF ReuseCached, Goto, Fail, NoSums, Smooth, Disturb, NoResponse, files, history,
         TypeOK, Matches
<1>3. CASE VerifyDownload
  BY <1>3, Images
     DEF VerifyDownload, Goto, Fail, NoSums, Smooth, Disturb, NoResponse, files, history,
         TypeOK, Matches
<1>4. CASE Place
  BY <1>4, Images DEF Place, Goto, Smooth, NoResponse, history, TypeOK, Matches
<1>5. CASE VerifyCopy
  BY <1>5, Images
     DEF VerifyCopy, Goto, Fail, NoSums, Smooth, Disturb, NoResponse, files, history,
         TypeOK, Matches
<1>6. CASE Request
  <2>1. CASE Whole
    BY <1>6, <2>1 DEF Request, Whole, Respond, Goto
  <2>2. CASE Rest
    BY <1>6, <2>2 DEF Request, Rest, Respond, Goto
  <2>3. CASE NoMore
    BY <1>6, <2>3 DEF Request, NoMore, Rename, Goto
  <2> QED
    BY <1>6, <2>1, <2>2, <2>3 DEF Request
<1>7. CASE Receive
  BY <1>7, Images DEF Receive, Smooth, history, TypeOK, Matches
<1>8. CASE BodyOver
  BY <1>8, Images
     DEF BodyOver, Rename, Goto, Smooth, NoResponse, history, TypeOK, Matches
<1>9. CASE BodyShort
  BY <1>9, Images
     DEF BodyShort, Rename, Goto, Disturb, NoResponse, history, TypeOK, Matches
<1>10. CASE Break
  BY <1>10, Images DEF Break, Goto, Smooth, NoResponse, files, history, TypeOK, Matches
<1>11. CASE GiveUp
  BY <1>11, Images
     DEF GiveUp, Fail, Goto, Disturb, NoResponse, files, history, TypeOK, Matches
<1>12. CASE Kill
  BY <1>12, Images DEF Kill, Goto, Disturb, NoResponse, history, TypeOK, Matches
<1>13. CASE Retry
  BY <1>13, Images DEF Retry, NoResponse, files, TypeOK, Matches
<1>14. CASE AttemptsOver
  BY <1>14, Images
     DEF AttemptsOver, Goto, Smooth, NoResponse, files, history, TypeOK, Matches
<1>15. CASE Again
  BY <1>15, Images DEF Again, NoResponse, TypeOK, Matches
<1>16. CASE Publish
  BY <1>16, Images DEF Publish, Disturb, NoResponse, files, history, TypeOK, Matches
<1>17. CASE UNCHANGED vars
  BY <1>17 DEF vars, files, history, TypeOK, Matches
<1> QED
  BY <1>1, <1>2, <1>3, <1>4, <1>5, <1>6, <1>7, <1>8, <1>9, <1>10, <1>11, <1>12, <1>13,
     <1>14, <1>15, <1>16, <1>17 DEF Next

\* Only a file that has just been verified is placed, and only a verified one is used.
LEMMA PublishedStep == CacheInv /\ [Next]_vars => PlacedIsPublished' /\ ImageIsPublished'
<1> SUFFICES ASSUME upstream \in Versions, began \in 1..upstream, PlacedIsPublished,
   ImageIsPublished, [Next]_vars
             PROVE  PlacedIsPublished' /\ ImageIsPublished'
  BY DEF CacheInv, TypeOK
<1> USE DEF PlacedIsPublished, ImageIsPublished
<1>1. CASE ReuseTarget
  <2>1. UNCHANGED <<upstream, began, cached>>
    BY <1>1 DEF ReuseTarget, Goto, Fail, NoSums, NoResponse, files, history
  <2>2. (pc' = "ok" => Matches(target) /\ target' = target) /\ pc' # "place"
    BY <1>1 DEF ReuseTarget, Goto, Fail, NoSums, NoResponse, files, history
  <2> QED
    BY <2>1, <2>2 DEF Matches, Versions
<1>2. CASE ReuseCached
  BY <1>2
     DEF ReuseCached, Goto, Fail, NoSums, Smooth, Disturb, NoResponse, files, history,
         Matches, Versions, Image, Active
<1>3. CASE VerifyDownload
  BY <1>3
     DEF VerifyDownload, Goto, Fail, NoSums, Smooth, Disturb, NoResponse, files, history,
         Matches, Versions, Image, Active
<1>4. CASE Place
  BY <1>4 DEF Place, Goto, Smooth, NoResponse, history, Matches, Versions, Image, Active
<1>5. CASE VerifyCopy
  <2>1. UNCHANGED <<upstream, began, cached>>
    BY <1>5 DEF VerifyCopy, Goto, Fail, NoSums, NoResponse, files, history
  <2>2. (pc' = "ok" => Matches(target) /\ target' = target) /\ pc' # "place"
    BY <1>5 DEF VerifyCopy, Goto, Fail, NoSums, NoResponse, files, history
  <2> QED
    BY <2>1, <2>2 DEF Matches, Versions
<1>6. CASE Request
  BY <1>6
     DEF Request, Whole, Rest, NoMore, Respond, Rename, Goto, Smooth, NoResponse, history,
         Matches, Versions, Image, Active
<1>7. CASE Receive
  BY <1>7 DEF Receive, Smooth, history, Matches, Versions, Image, Active
<1>8. CASE BodyOver
  BY <1>8
     DEF BodyOver, Rename, Goto, Smooth, NoResponse, history, Matches, Versions, Image,
         Active
<1>9. CASE BodyShort
  BY <1>9
     DEF BodyShort, Rename, Goto, Disturb, NoResponse, history, Matches, Versions, Image,
         Active
<1>10. CASE Break
  BY <1>10
     DEF Break, Goto, Smooth, NoResponse, files, history, Matches, Versions, Image, Active
<1>11. CASE GiveUp
  BY <1>11
     DEF GiveUp, Fail, Goto, Disturb, NoResponse, files, history, Matches, Versions, Image,
         Active
<1>12. CASE Kill
  BY <1>12 DEF Kill, Goto, Disturb, NoResponse, history, Matches, Versions, Image, Active
<1>13. CASE Retry
  BY <1>13 DEF Retry, NoResponse, files, Matches, Versions, Image, Active
<1>14. CASE AttemptsOver
  BY <1>14
     DEF AttemptsOver, Goto, Smooth, NoResponse, files, history, Matches, Versions, Image,
         Active
<1>15. CASE Again
  BY <1>15 DEF Again, NoResponse, Matches, Versions, Image, Active
<1>16. CASE Publish
  BY <1>16
     DEF Publish, Disturb, NoResponse, files, history, Matches, Versions, Image, Active
<1>17. CASE UNCHANGED vars
  BY <1>17 DEF vars, files, history, Matches, Versions, Image, Active
<1> QED
  BY <1>1, <1>2, <1>3, <1>4, <1>5, <1>6, <1>7, <1>8, <1>9, <1>10, <1>11, <1>12, <1>13,
     <1>14, <1>15, <1>16, <1>17 DEF Next

-----------------------------------------------------------------------------
(* What a step costs. *)

\* The attempt goes on, and nothing gets worse.
Quiet ==
  /\ Failures' = Failures /\ bad' = bad
  /\ (Fresh => Fresh') /\ (Doomed' => Doomed)

\* The attempt ends with a disturbance, or because it was doomed.
Ends ==
  /\ Failures' = Failures + 1 /\ ~Doomed' /\ (Fresh => Fresh')
  /\ bad' = bad + 1 \/ (bad' = bad /\ Doomed)

\* The part file has become the image in the cache: if it was stale, then now the
\* attempt is doomed instead.
Renames ==
  /\ Failures' = Failures /\ bad' = bad
  /\ Fresh' /\ ~Doomed /\ (Fresh => ~Doomed')

\* A disturbance spoils the part file or the attempt, not both.
Spoils ==
  /\ Failures' = Failures /\ bad' = bad + 1
  /\ Fresh' \/ ~Doomed'

\* A new prefetch.
Begins == Failures' = 0 /\ bad' = 0 /\ ~Doomed'

\* None of these overdraws the budget.
LEMMA CostsKeepBudget ==
  ASSUME TypeOK, Budget, Quiet \/ Ends \/ Renames \/ Spoils \/ Begins
  PROVE  Budget'
<1>1. Failures \in Int /\ bad \in Nat
  BY DEF TypeOK, Failures
<1>2. CASE Quiet
  BY <1>1, <1>2 DEF Quiet, Budget, Count
<1>3. CASE Ends
  BY <1>1, <1>3 DEF Ends, Budget, Count
<1>4. CASE Renames
  BY <1>1, <1>4 DEF Renames, Budget, Count
<1>5. CASE Spoils
  BY <1>1, <1>5 DEF Spoils, Budget, Count
<1>6. CASE Begins
  BY <1>1, <1>6 DEF Begins, Budget, Count
<1> QED
  BY <1>2, <1>3, <1>4, <1>5, <1>6

\* An empty part file is fresh outside a stream.
LEMMA EmptyIsFresh ==
  ASSUME TypeOK', part' = <<>>, pc' # "stream"
  PROVE  Fresh'
<1>1. Size[upstream'] \in Nat /\ Len(part') = 0
  BY Sizes DEF TypeOK
<1> QED
  BY <1>1 DEF Fresh

\* A missing checksum file ends the attempt with a disturbance, a mismatch without.
LEMMA FailEnds ==
  ASSUME TypeOK, pc \notin {"failed", "gaveup", "stream"}, Fail,
     Disturb \/ (Smooth /\ Doomed)
  PROVE  Ends
<1>1. Failures' = Failures + 1 /\ ~Doomed'
  BY DEF Fail, Goto, history, Failures, Doomed, TypeOK
<1>2. Fresh => Fresh'
  BY DEF Fail, Goto, files, Fresh
<1> QED
  BY <1>1, <1>2 DEF Ends, Disturb, Smooth

\* The budget is kept.
LEMMA BudgetStep == CacheInv /\ [Next]_vars => Budget'
<1> SUFFICES ASSUME TypeOK, TypeOK', OneFile, Budget, [Next]_vars PROVE Budget'
  BY TypeStep DEF CacheInv
<1>1. CASE ReuseTarget
  <2>1. CASE NoSums
    <3>1. Ends
      BY <1>1, <2>1, FailEnds DEF ReuseTarget, NoSums
    <3> QED
      BY <3>1, CostsKeepBudget
  <2>2. CASE ~NoSums
    <3>1. Failures' = Failures /\ bad' = bad
      BY <1>1, <2>2 DEF ReuseTarget, Goto, Smooth, history, Failures
    <3>2. (Fresh => Fresh') /\ ~Doomed'
      BY <1>1, <2>2 DEF ReuseTarget, Goto, files, history, Fresh, Doomed, Matches
    <3> QED
      BY <3>1, <3>2, CostsKeepBudget DEF Quiet
  <2> QED
    BY <2>1, <2>2
<1>2. CASE ReuseCached
  <2>1. CASE NoSums
    <3>1. Ends
      BY <1>2, <2>1, FailEnds DEF ReuseCached, NoSums
    <3> QED
      BY <3>1, CostsKeepBudget
  <2>2. CASE ~NoSums
    <3>1. Failures' = Failures /\ bad' = bad
      BY <1>2, <2>2 DEF ReuseCached, Goto, Smooth, history, Failures
    <3>2. (Fresh => Fresh') /\ ~Doomed'
      BY <1>2, <2>2 DEF ReuseCached, Goto, files, history, Fresh, Doomed, Matches
    <3> QED
      BY <3>1, <3>2, CostsKeepBudget DEF Quiet
  <2> QED
    BY <2>1, <2>2
<1>3. CASE VerifyDownload
  <2>1. CASE NoSums
    <3>1. Ends
      BY <1>3, <2>1, FailEnds DEF VerifyDownload, NoSums
    <3> QED
      BY <3>1, CostsKeepBudget
  <2>2. CASE Smooth /\ ~Matches(cached) /\ Fail
    <3>1. Ends
      BY <1>3, <2>2, FailEnds DEF VerifyDownload, Doomed
    <3> QED
      BY <3>1, CostsKeepBudget
  <2>3. CASE Smooth /\ Matches(cached) /\ Goto("place") /\ UNCHANGED files
    <3>1. Quiet
      BY <1>3, <2>3 DEF VerifyDownload, Smooth, Goto, files, history, Quiet, Failures,
         Fresh, Doomed, Matches
    <3> QED
      BY <3>1, CostsKeepBudget
  <2> QED
    BY <1>3, <2>1, <2>2, <2>3 DEF VerifyDownload
<1>4. CASE Place
  <2>1. Quiet
    BY <1>4 DEF Place, Goto, Smooth, NoResponse, history, Quiet, Failures, Fresh, Doomed,
       Active, TypeOK, Matches
  <2> QED
    BY <2>1, CostsKeepBudget
<1>5. CASE VerifyCopy
  <2>1. CASE NoSums
    <3>1. Ends
      BY <1>5, <2>1, FailEnds DEF VerifyCopy, NoSums
    <3> QED
      BY <3>1, CostsKeepBudget
  <2>2. CASE Smooth /\ ~Matches(target) /\ Fail
    <3>1. Ends
      BY <1>5, <2>2, FailEnds DEF VerifyCopy, Doomed
    <3> QED
      BY <3>1, CostsKeepBudget
  <2>3. CASE Smooth /\ Matches(target) /\ Goto("ok") /\ UNCHANGED files
    <3>1. Quiet
      BY <1>5, <2>3 DEF VerifyCopy, Smooth, Goto, files, history, Quiet, Failures, Fresh,
         Doomed, Matches
    <3> QED
      BY <3>1, CostsKeepBudget
  <2> QED
    BY <1>5, <2>1, <2>2, <2>3 DEF VerifyCopy
<1>6. CASE Request
  <2>1. CASE Whole
    <3>1. Quiet
      BY <1>6, <2>1, Sizes DEF Request, Whole, Respond, Goto, Smooth, history, Quiet,
         Failures, Fresh, Doomed, TypeOK
    <3> QED
      BY <3>1, CostsKeepBudget
  <2>2. CASE Rest
    <3>1. Quiet
      BY <1>6, <2>2 DEF Request, Rest, Respond, Goto, Smooth, history, Quiet, Failures,
         Fresh, Doomed
    <3> QED
      BY <3>1, CostsKeepBudget
  <2>3. CASE NoMore
    <3>1. Failures' = Failures /\ bad' = bad /\ ~Doomed
      BY <1>6, <2>3 DEF Request, NoMore, Rename, Goto, Smooth, history, Failures, Doomed
    <3>2. Fresh'
      BY <1>6, <2>3, EmptyIsFresh DEF Request, NoMore, Rename, Goto
    <3>3. Fresh => ~Doomed'
      BY <1>6, <2>3, FreshIsImage DEF Request, NoMore, Rename, Goto, Doomed, Matches
    <3> QED
      BY <3>1, <3>2, <3>3, CostsKeepBudget DEF Renames
  <2> QED
    BY <1>6, <2>1, <2>2, <2>3 DEF Request
<1>7. CASE Receive
  <2>1. Failures' = Failures /\ bad' = bad /\ ~Doomed'
    BY <1>7 DEF Receive, Smooth, history, Failures, Doomed
  <2>2. ASSUME Fresh PROVE Fresh'
    <3>1. got = upstream /\ Len(part) + 1 <= Size[upstream]
      BY <1>7, <2>2 DEF Receive, OneFile, Fresh
    <3>2. part \in Seq(Versions) /\ part' = Append(part, upstream) /\ upstream' = upstream
      BY <1>7, <3>1 DEF Receive, TypeOK
    <3>3. Len(part') = Len(part) + 1 /\ \A i \in 1..Len(part') : part'[i] = upstream
      BY <2>2, <3>2 DEF Fresh
    <3> QED
      BY <1>7, <3>1, <3>2, <3>3 DEF Receive, Fresh
  <2> QED
    BY <2>1, <2>2, CostsKeepBudget DEF Quiet
<1>8. CASE BodyOver
  <2>1. Failures' = Failures /\ bad' = bad /\ ~Doomed
    BY <1>8 DEF BodyOver, Rename, Goto, Smooth, history, Failures, Doomed
  <2>2. Fresh'
    BY <1>8, EmptyIsFresh DEF BodyOver, Rename, Goto
  <2>3. ASSUME Fresh PROVE ~Doomed'
    <3>1. Len(part) >= Size[upstream]
      BY <1>8, <2>3, Sizes DEF BodyOver, OneFile, Fresh, TypeOK
    <3> QED
      BY <1>8, <2>3, <3>1, FreshIsImage DEF BodyOver, Rename, Goto, Doomed, Matches
  <2> QED
    BY <2>1, <2>2, <2>3, CostsKeepBudget DEF Renames
<1>9. CASE BodyShort
  <2>1. Failures' = Failures /\ bad' = bad + 1
    BY <1>9 DEF BodyShort, Rename, Goto, Disturb, history, Failures
  <2>2. Fresh'
    BY <1>9, EmptyIsFresh DEF BodyShort, Rename, Goto
  <2> QED
    BY <2>1, <2>2, CostsKeepBudget DEF Spoils
<1>10. CASE Break
  <2>1. Quiet
    BY <1>10 DEF Break, Goto, Smooth, NoResponse, files, history, Quiet, Failures, Fresh,
       Doomed, Active, TypeOK, Matches
  <2> QED
    BY <2>1, CostsKeepBudget
<1>11. CASE GiveUp
  <2>1. Ends
    BY <1>11 DEF GiveUp, Fail, Goto, Disturb, NoResponse, files, history, Ends, Failures,
       Fresh, Doomed, Active, TypeOK, Matches
  <2> QED
    BY <2>1, CostsKeepBudget
<1>12. CASE Kill
  <2>1. Ends
    BY <1>12 DEF Kill, Goto, Disturb, NoResponse, history, Ends, Failures, Fresh, Doomed,
       Active, TypeOK, Matches
  <2> QED
    BY <2>1, CostsKeepBudget
<1>13. CASE Retry
  <2>1. Quiet
    BY <1>13 DEF Retry, NoResponse, files, Quiet, Failures, Fresh, Doomed, Active, TypeOK,
       Matches
  <2> QED
    BY <2>1, CostsKeepBudget
<1>14. CASE AttemptsOver
  <2>1. Quiet
    BY <1>14 DEF AttemptsOver, Goto, Smooth, NoResponse, files, history, Quiet, Failures,
       Fresh, Doomed, Active, TypeOK, Matches
  <2> QED
    BY <2>1, CostsKeepBudget
<1>15. CASE Again
  <2>1. Begins
    BY <1>15 DEF Again, NoResponse, Begins, Failures, Fresh, Doomed, Active, TypeOK, Matches
  <2> QED
    BY <2>1, CostsKeepBudget
<1>16. CASE Publish
  <2>1. Failures' = Failures /\ bad' = bad + 1
    BY <1>16 DEF Publish, Disturb, history, Failures
  <2>2. CASE pc \in {"check", "place", "copied"}
    <3>1. part' = <<>> /\ pc' # "stream"
      BY <1>16, <2>2 DEF Publish, files, OneFile
    <3>2. Fresh'
      BY <3>1, EmptyIsFresh
    <3> QED
      BY <2>1, <3>2, CostsKeepBudget DEF Spoils
  <2>3. CASE pc \notin {"check", "place", "copied"}
    <3>1. ~Doomed'
      BY <1>16, <2>3 DEF Publish, Doomed
    <3> QED
      BY <2>1, <3>1, CostsKeepBudget DEF Spoils
  <2> QED
    BY <2>2, <2>3
<1>17. CASE UNCHANGED vars
  BY <1>17 DEF vars, files, history, Budget, Failures, Fresh, Doomed, Matches
<1> QED
  BY <1>1, <1>2, <1>3, <1>4, <1>5, <1>6, <1>7, <1>8, <1>9, <1>10, <1>11, <1>12, <1>13,
     <1>14, <1>15, <1>16, <1>17 DEF Next

-----------------------------------------------------------------------------
(* The theorems. *)

\* Only AttemptsOver gives up.
LEMMA GaveUpStep ==
  (pc = "gaveup" => attempt = MaxAttempts) /\ [Next]_vars => (pc' = "gaveup" => attempt' = MaxAttempts)
<1> SUFFICES ASSUME pc = "gaveup" => attempt = MaxAttempts, [Next]_vars
             PROVE  pc' = "gaveup" => attempt' = MaxAttempts
  OBVIOUS
<1>1. CASE ReuseTarget
  BY <1>1 DEF ReuseTarget, Goto, Fail, NoSums, Smooth, Disturb, NoResponse, files, history
<1>2. CASE ReuseCached
  BY <1>2 DEF ReuseCached, Goto, Fail, NoSums, Smooth, Disturb, NoResponse, files, history
<1>3. CASE VerifyDownload
  BY <1>3 DEF VerifyDownload, Goto, Fail, NoSums, Smooth, Disturb, NoResponse, files,
     history
<1>4. CASE Place
  BY <1>4 DEF Place, Goto, Smooth, NoResponse, history
<1>5. CASE VerifyCopy
  BY <1>5 DEF VerifyCopy, Goto, Fail, NoSums, Smooth, Disturb, NoResponse, files, history
<1>6. CASE Request
  BY <1>6 DEF Request, Whole, Rest, NoMore, Respond, Rename, Goto, Smooth, NoResponse,
     history
<1>7. CASE Receive
  BY <1>7 DEF Receive, Smooth, history
<1>8. CASE BodyOver
  BY <1>8 DEF BodyOver, Rename, Goto, Smooth, NoResponse, history
<1>9. CASE BodyShort
  BY <1>9 DEF BodyShort, Rename, Goto, Disturb, NoResponse, history
<1>10. CASE Break
  BY <1>10 DEF Break, Goto, Smooth, NoResponse, files, history
<1>11. CASE GiveUp
  BY <1>11 DEF GiveUp, Fail, Goto, Disturb, NoResponse, files, history
<1>12. CASE Kill
  BY <1>12 DEF Kill, Goto, Disturb, NoResponse, history
<1>13. CASE Retry
  BY <1>13 DEF Retry, NoResponse, files
<1>14. CASE AttemptsOver
  BY <1>14 DEF AttemptsOver, Goto, Smooth, NoResponse, files, history
<1>15. CASE Again
  BY <1>15 DEF Again, NoResponse
<1>16. CASE Publish
  BY <1>16 DEF Publish, Disturb, NoResponse, files, history
<1>17. CASE UNCHANGED vars
  BY <1>17 DEF vars, history
<1> QED
  BY <1>1, <1>2, <1>3, <1>4, <1>5, <1>6, <1>7, <1>8, <1>9, <1>10, <1>11, <1>12, <1>13,
     <1>14, <1>15, <1>16, <1>17 DEF Next

\* The invariant is preserved by every step.
LEMMA Inductive == CacheInv /\ [Next]_vars => CacheInv'
  BY TypeStep, OneFileStep, PublishedStep, BudgetStep, GaveUpStep DEF CacheInv

\* The inductive invariant holds in every reachable state, whatever the sizes of the
\* images and the number of attempts.
THEOREM CacheInvariant == Spec => []CacheInv
<1>1. Init => CacheInv
  BY InitInv
<1>2. CacheInv /\ [Next]_vars => CacheInv'
  BY Inductive
<1> QED
  BY <1>1, <1>2, PTL DEF Spec

\* The image that _ensure_image hands to a VM is a published one, whole, and not
\* older than the attempt.
THEOREM PlacedImageIsPublished == Spec => []ImageIsPublished
<1>1. CacheInv => ImageIsPublished
  BY DEF CacheInv
<1> QED
  BY <1>1, CacheInvariant, PTL

\* n attempts of prefetch_images outlast any n - 2 disturbances.
THEOREM AttemptsOutlastDisturbances == Spec => []FailsOnlyIfDisturbed
<1>1. CacheInv => FailsOnlyIfDisturbed
  <2> SUFFICES ASSUME CacheInv, pc = "gaveup" PROVE bad >= MaxAttempts - 1
    BY DEF FailsOnlyIfDisturbed
  <2>1. Failures = MaxAttempts /\ bad \in Nat
    BY DEF CacheInv, Failures, TypeOK
  <2> QED
    BY <2>1 DEF CacheInv, Budget, Count
<1> QED
  BY <1>1, CacheInvariant, PTL

\* download_to_cache never removes or overwrites a cached image that is the
\* published one, whatever else fails.
THEOREM GoodImageStays == Spec => GoodImageIsKept
<1>1. CacheInv /\ [Next]_vars => [Matches(cached) => cached' = cached]_vars
  <2> SUFFICES ASSUME TypeOK, OneFile, [Next]_vars, Matches(cached) PROVE cached' = cached
    BY DEF CacheInv
  <2>1. cached # <<>>
    BY Images DEF Matches, TypeOK
  <2>2. pc \notin {"request", "stream"}
    BY <2>1 DEF OneFile
  <2>3. CASE ReuseCached
    BY <2>3 DEF ReuseCached, Goto, Fail, NoSums, files
  <2>4. CASE UNCHANGED vars
    BY <2>4 DEF vars, files
  <2> QED
    BY <2>2, <2>3, <2>4 DEF Next, ReuseTarget, VerifyDownload, Place, VerifyCopy, Request,
       Receive,
       BodyOver, BodyShort, Break, GiveUp, Kill, Retry, AttemptsOver, Again, Publish, Fail,
          NoSums, files
<1> QED
  BY <1>1, CacheInvariant, PTL DEF Spec, GoodImageIsKept

=============================================================================
