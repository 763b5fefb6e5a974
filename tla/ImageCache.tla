------------------------------ MODULE ImageCache ------------------------------
(***************************************************************************)
(* The cloud image of one distro on its way from the mirror to a VM        *)
(* directory: prefetch_images runs setup_vm.py --prefetch up to MaxAttempts *)
(* times, each of which is _ensure_image, download_to_cache, download.     *)
(*                                                                         *)
(* An image is a sequence of blocks, each the version it belongs to, so    *)
(* that a truncated file and one pieced together from two versions can be  *)
(* told from a published one; a file that is absent or empty is <<>>.      *)
(* Under its fixed address (.../current/...) the mirror publishes one      *)
(* version after the other, image and checksum file together.  A process   *)
(* may be killed, a connection may break or end early, at any point.       *)
(***************************************************************************)
EXTENDS Integers, Sequences

CONSTANTS
  Size,         \* Size[v]: blocks of the image of version v, for versions 1, 2, ...
  MaxAttempts   \* max_attempts

ASSUME SizeAssumption == Size \in Seq(Nat \ {0}) /\ Size # <<>>
ASSUME AttemptsAssumption == MaxAttempts \in Nat \ {0}

VARIABLES
  upstream,  \* version the mirror publishes
  cached,    \* image in the shared cache
  part,      \* <image>.part beside it
  target,    \* image in the VM directory
  pc,        \* control point of setup_vm.py, or of prefetch_images between attempts
  got,       \* version the open response belongs to
  at,        \* its next block
  attempt,   \* attempt of prefetch_images
  began,     \* history: upstream when the attempt began
  bad        \* history: disturbances since the prefetch began

files == <<cached, part, target>>
history == <<attempt, began>>
vars == <<upstream, files, pc, got, at, history, bad>>

Versions == 1..Len(Size)
Image(v) == [i \in 1..Size[v] |-> v]
Matches(file) == file = Image(upstream)

Init ==
  /\ upstream = 1
  /\ cached = <<>> /\ part = <<>> /\ target = <<>>
  /\ pc = "target"
  /\ got = 1 /\ at = 1
  /\ attempt = 1 /\ began = 1 /\ bad = 0

Goto(point) == pc' = point /\ UNCHANGED <<upstream, history>>
Disturb == bad' = bad + 1
Smooth  == UNCHANGED bad
NoResponse == UNCHANGED <<got, at>>

\* The program ends with an exception; what is on disk stays as it is.
Fail == Goto("failed") /\ UNCHANGED files /\ NoResponse

\* verify_hash cannot fetch the checksum file, and refuses.
NoSums == Fail /\ Disturb

-----------------------------------------------------------------------------
(* _ensure_image, download_to_cache *)

\* Bug: an image that is there is used as it is.
ReuseTargetUnverified ==
  /\ pc = "target"
  /\ Smooth /\ NoResponse
  /\ Goto(IF target = <<>> THEN "cache" ELSE "ok") /\ UNCHANGED files

\* An image in the VM directory is used if it matches, and removed if it does not.
ReuseTarget ==
  /\ pc = "target"
  /\ \/ target # <<>> /\ NoSums
     \/ /\ Smooth /\ NoResponse
        /\ IF target # <<>> /\ Matches(target)
           THEN Goto("ok") /\ UNCHANGED files
           ELSE Goto("cache") /\ target' = <<>> /\ UNCHANGED <<cached, part>>

\* Bug: the handler takes every RuntimeError, a missing checksum file included.
ReuseCachedAnyError ==
  /\ pc = "cache"
  /\ NoResponse
  /\ \/ Disturb /\ Goto("request") /\ cached' = <<>> /\ UNCHANGED <<part, target>>
     \/ /\ Smooth
        /\ IF cached # <<>> /\ Matches(cached)
           THEN Goto("place") /\ UNCHANGED files
           ELSE Goto("request") /\ cached' = <<>> /\ UNCHANGED <<part, target>>

\* Bug: the mismatch of a cached image is not handled.
ReuseCachedStuck ==
  /\ pc = "cache"
  /\ IF cached = <<>> THEN Goto("request") /\ UNCHANGED files /\ NoResponse /\ Smooth
     ELSE IF Matches(cached) THEN Goto("place") /\ UNCHANGED files /\ NoResponse /\ Smooth
     ELSE Fail /\ Smooth

\* The same for the image in the cache.
ReuseCached ==
  /\ pc = "cache"
  /\ \/ cached # <<>> /\ NoSums
     \/ /\ Smooth /\ NoResponse
        /\ IF cached # <<>> /\ Matches(cached)
           THEN Goto("place") /\ UNCHANGED files
           ELSE Goto("request") /\ cached' = <<>> /\ UNCHANGED <<part, target>>

\* The second verification: a mismatch is not handled here, and leaves the image
\* in the cache for the next attempt to find.
VerifyDownload ==
  /\ pc = "check"
  /\ \/ NoSums
     \/ Smooth /\ Matches(cached) /\ Goto("place") /\ UNCHANGED files /\ NoResponse
     \/ Smooth /\ ~Matches(cached) /\ Fail

\* materialize_image: a hard link, or a copy, which is verified again.
Place ==
  /\ pc = "place"
  /\ target' = cached
  /\ Goto("ok") \/ Goto("copied")
  /\ UNCHANGED <<cached, part>> /\ NoResponse /\ Smooth

VerifyCopy ==
  /\ pc = "copied"
  /\ \/ NoSums
     \/ Smooth /\ Matches(target) /\ Goto("ok") /\ UNCHANGED files /\ NoResponse
     \/ Smooth /\ ~Matches(target) /\ Fail

-----------------------------------------------------------------------------
(* download *)

Rename == cached' = part /\ part' = <<>> /\ Goto("check") /\ UNCHANGED target /\ NoResponse

Respond(first) ==
  /\ got' = upstream /\ at' = first
  /\ Goto("stream")
  /\ UNCHANGED <<cached, target>> /\ Smooth

\* Bug: a full body is appended to the partial file.
WholeAppended == Respond(1) /\ UNCHANGED part

\* HTTP 200: the whole body; a partial file is truncated.
Whole == Respond(1) /\ part' = <<>>

\* HTTP 206: the rest of what is published now, whatever part holds.
Rest ==
  /\ part # <<>>
  /\ Len(part) < Size[upstream]
  /\ Respond(Len(part) + 1) /\ UNCHANGED part

\* HTTP 416: nothing beyond the length of part, which is taken to be complete.
NoMore ==
  /\ part # <<>>
  /\ Len(part) >= Size[upstream]
  /\ Rename /\ Smooth

Request == pc = "request" /\ (Whole \/ Rest \/ NoMore)

Receive ==
  /\ pc = "stream"
  /\ at <= Size[got]
  /\ part' = Append(part, got)
  /\ at' = at + 1
  /\ UNCHANGED <<upstream, cached, target, pc, got, history>> /\ Smooth

\* The body is over.  One cut short by the peer ends the same way.
BodyOver == pc = "stream" /\ at > Size[got] /\ Rename /\ Smooth
BodyShort == pc = "stream" /\ at <= Size[got] /\ Rename /\ Disturb

\* Timeout, reset, IncompleteRead, a retryable status: sleep and ask again.
Break ==
  /\ pc = "stream"
  /\ Goto("request")
  /\ UNCHANGED files /\ NoResponse /\ Smooth

\* The 1800 s are over, or the status is permanent.
GiveUp == pc \in {"request", "stream"} /\ Fail /\ Disturb

-----------------------------------------------------------------------------
(* prefetch_images and the world. *)

Active == {"target", "cache", "request", "stream", "check", "place", "copied"}

\* The 2400 s of run_to_file, a crash or a Ctrl-C; a copy is left half done.
Kill ==
  /\ pc \in Active
  /\ Goto("failed") /\ Disturb /\ NoResponse
  /\ UNCHANGED <<cached, part>>
  /\ \/ UNCHANGED target
     \/ pc = "place" /\ \E n \in 0..Len(cached) : target' = SubSeq(cached, 1, n)

Retry ==
  /\ pc = "failed"
  /\ attempt < MaxAttempts
  /\ pc' = "target" /\ attempt' = attempt + 1 /\ began' = upstream
  /\ UNCHANGED <<upstream, files, bad>> /\ NoResponse

AttemptsOver ==
  /\ pc = "failed"
  /\ attempt = MaxAttempts
  /\ Goto("gaveup")
  /\ UNCHANGED files /\ NoResponse /\ Smooth

\* Later, another prefetch over what the last one left behind; the image in the
\* VM directory may be gone, removed by a build that has converted it.
Again ==
  /\ pc \in {"ok", "gaveup"}
  /\ pc' = "target" /\ attempt' = 1 /\ began' = upstream /\ bad' = 0
  /\ target' \in {target, <<>>}
  /\ UNCHANGED <<upstream, cached, part>> /\ NoResponse

\* The mirror moves on: a disturbance for the attempt or the retries under way.
Publish ==
  /\ upstream < Len(Size)
  /\ upstream' = upstream + 1
  /\ Disturb
  /\ UNCHANGED <<files, pc, history>> /\ NoResponse

Next ==
  \/ ReuseTarget \/ ReuseCached \/ VerifyDownload \/ Place \/ VerifyCopy
  \/ Request \/ Receive \/ BodyOver \/ BodyShort \/ Break \/ GiveUp
  \/ Kill \/ Retry \/ AttemptsOver \/ Again
  \/ Publish

Spec == Init /\ [][Next]_vars

-----------------------------------------------------------------------------
(* Properties. *)

TypeOK ==
  /\ upstream \in Versions
  /\ \A file \in {cached, part, target} :
       file \in Seq(Versions) /\ \E v \in Versions : Len(file) <= Size[v]
  /\ pc \in Active \cup {"ok", "failed", "gaveup"}
  /\ got \in Versions
  /\ at \in 1..Size[got] + 1
  /\ attempt \in 1..MaxAttempts
  /\ began \in 1..upstream
  /\ bad \in Nat

\* The image a VM is built from is one the mirror published, whole, and not older than
\* the attempt that provided it: never a truncated one, never one resumed across two
\* versions, whatever kills and leftovers went before.
ImageIsPublished ==
  pc = "ok" => \E v \in began..upstream : target = Image(v)

\* "max_attempts = 3": whatever earlier runs left in the cache, a prefetch fails
\* for good only after at least two disturbances (a kill, a connection given up or
\* cut short, a missing checksum file, a new version); connections that break and are
\* resumed do not count.  An attempt that fails undisturbed has used up the
\* leftover that made it fail.
FailsOnlyIfDisturbed ==
  pc = "gaveup" => bad >= MaxAttempts - 1

\* A cached image that is the published one is not given up, whatever fails: only
\* a mismatch removes it.
GoodImageIsKept ==
  [][Matches(cached) => cached' = cached]_vars

-----------------------------------------------------------------------------
(* The inductive invariant behind the three; ImageCache_proofs proves it.    *)

\* What is there of part, and what is still to come for it, is the published version.
Fresh ==
  /\ Len(part) <= Size[upstream]
  /\ \A i \in 1..Len(part) : part[i] = upstream
  /\ pc = "stream" => got = upstream

\* A verification that is still to come will fail.
Doomed ==
  \/ pc \in {"check", "place"} /\ ~Matches(cached)
  \/ pc = "copied" /\ ~Matches(target)

Failures == IF pc \in {"failed", "gaveup"} THEN attempt ELSE attempt - 1
Count(b) == IF b THEN 1 ELSE 0

\* Every failure, and whatever will make an attempt fail, has been paid for by
\* a disturbance, but for the one leftover the prefetch may have begun with.
Budget == Failures + Count(~Fresh) + Count(Doomed) <= bad + 1

\* There is a part file only while there is no image in the cache.
OneFile ==
  /\ part # <<>> \/ pc \in {"request", "stream"} => cached = <<>>
  /\ pc \in {"check", "place", "copied"} => part = <<>>
  /\ pc = "stream" => at = Len(part) + 1

PlacedIsPublished ==
  pc = "place" => \E v \in began..upstream : cached = Image(v)

CacheInv ==
  /\ TypeOK
  /\ OneFile
  /\ PlacedIsPublished
  /\ ImageIsPublished
  /\ Budget
  /\ pc = "gaveup" => attempt = MaxAttempts

=============================================================================
