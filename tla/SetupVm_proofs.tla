---------------------------- MODULE SetupVm_proofs ----------------------------
(***************************************************************************)
(* Proofs about SetupVm, for every bound on the invocations and the VMs    *)
(* and every set of command lines.                                         *)
(*                                                                         *)
(* What an invocation has created so far follows from its program point,   *)
(* file by file (DiskOK to LauncherOK); that no VM has a file open while it is *)
(* written from the numbers the files carry (VmsOK); that the key pair     *)
(* fits every VM from what the halves are at each point (KeysOK).          *)
(* The theorems about HostFit are at the end.                              *)
(***************************************************************************)
EXTENDS SetupVm, HostFit, TLAPS

FromDrop     == {"drop", "templates", "keys", "keygen", "keypub", "seed", "seeded", "nvram",
                 "copied", "launcher", "written", "info", "start", "summary"}
FromSeeded   == {"seeded", "nvram", "copied", "launcher", "written", "info", "start", "summary"}
FromNvram    == FromSeeded \ {"seeded"}
FromLauncher == {"launcher", "written", "info", "start", "summary"}
FromInfo     == {"info", "start", "summary"}
FromStart    == {"start", "summary"}
BeforeDisk   == {"check", "image", "fetched", "prefetch", "disk"}
BeforeSeed   == BeforeDisk \cup {"resize", "drop", "templates", "keys", "keygen", "keypub", "seed"}

Own == [by |-> run, whole |-> TRUE]

\* An invocation that is on its way has no exit status, and builds only if it is to.
RunOK ==
  /\ pc # "idle" => run > 0 /\ exit = NoExit
  /\ pc \in FromDrop \cup {"disk", "resize"} => ~opt.prefetch
  /\ \A a \in Artifacts : file[a].by <= run

DiskOK ==
  /\ pc \in BeforeDisk => file["disk"].by < run
  /\ pc = "resize" => file["disk"] = [by |-> run, whole |-> FALSE]
  /\ pc \in FromDrop => file["disk"] = Own

SeedOK ==
  /\ pc \in BeforeSeed => file["seed"].by < run
  /\ pc = "seeded" => file["seed"] = [by |-> run, whole |-> FALSE]
  /\ pc \in FromSeeded => seed = [key |-> pub, simulate |-> opt.simulate]
  /\ pc \in FromNvram => file["seed"] = Own

\* A variable store is incomplete only while it is copied, or since a copy was cut short.
NvramOK ==
  /\ pc = "copied" => file["nvram"] = [by |-> run, whole |-> FALSE]
  /\ file["nvram"].by # 0 /\ pc # "copied" => file["nvram"].whole \/ tornVars
  /\ pc \in FromLauncher => file["nvram"].by # 0

LauncherOK ==
  /\ pc = "written" => file["launcher"] = [by |-> run, whole |-> FALSE]
  /\ pc \in FromInfo => file["launcher"] = Own
  /\ pc \in FromStart => file["info"] = Own

\* The public half is there only with its private half, and once it is there it stays;
\* what seeds and VMs were given is that pair.
KeysOK ==
  /\ pub # 0 => priv = pub
  /\ pc = "keygen" => priv = 0 /\ pub = 0
  /\ pc = "keypub" => priv = run /\ pub = 0
  /\ seed.key # 0 => seed.key = pub
  /\ \A v \in VmIds : vm[v].key # 0 => vm[v].key = pub

\* A VM has only files of invocations so far, and none of the current one's before that
\* has launched it.
VmsOK ==
  \A v \in VmIds :
    /\ vm[v].disk.by <= run /\ vm[v].seed.by <= run /\ vm[v].nvram.by <= run
    /\ pc \notin {"idle", "summary"} =>
         vm[v].disk.by # run /\ vm[v].seed.by # run /\ vm[v].nvram.by # run

SInv ==
  /\ SetupTypeOK /\ RunOK /\ DiskOK /\ SeedOK /\ NvramOK /\ LauncherOK /\ KeysOK /\ VmsOK
  /\ SuccessIsWhole

ProgType == pc \in Points /\ run \in Runs /\ opt \in Options /\ exit \in Statuses /\ tornVars \in BOOLEAN
FileType == file \in [Artifacts -> File]
KeyType  == priv \in Runs /\ pub \in Runs /\ seed \in [key : Runs, simulate : BOOLEAN]
Vms      == [state : {"none", "up", "gone"}, by : Runs, disk : File, seed : File,
             nvram : File, key : Runs, simulate : BOOLEAN]
VmType   == console \in VmIds \cup {0} /\ vm \in [VmIds -> Vms]

LEMMA TypeParts == SetupTypeOK <=> ProgType /\ FileType /\ KeyType /\ VmType
  BY DEF SetupTypeOK, ProgType, FileType, KeyType, VmType, Vms

LEMMA CreateEffect ==
  ASSUME FileType, run \in Runs, NEW a \in Artifacts, Create(a)
  PROVE  /\ FileType'
         /\ file'[a] = [by |-> run, whole |-> FALSE]
         /\ \A b \in Artifacts : b # a => file'[b] = file[b]
  BY DEF FileType, Create, File

LEMMA RemoveEffect ==
  ASSUME FileType, NEW a \in Artifacts, Remove(a)
  PROVE  /\ FileType'
         /\ file'[a] = NoFile
         /\ \A b \in Artifacts : b # a => file'[b] = file[b]
  BY BoundsAssumption DEF FileType, Remove, File, NoFile, Runs

LEMMA FinishEffect ==
  ASSUME FileType, NEW a \in Artifacts, Finish(a)
  PROVE  /\ FileType'
         /\ file'[a] = [by |-> file[a].by, whole |-> TRUE]
         /\ \A b \in Artifacts : b # a => file'[b] = file[b]
  BY DEF FileType, Finish, File

LEMMA InfoEffect ==
  ASSUME FileType, run \in Runs, file' = [file EXCEPT !["info"] = [by |-> run, whole |-> TRUE]]
  PROVE  /\ FileType'
         /\ file'["info"] = Own
         /\ \A b \in Artifacts : b # "info" => file'[b] = file[b]
  BY DEF FileType, File, Own, Artifacts

LEMMA BootsEffect ==
  ASSUME VmType, FileType, KeyType, NEW v \in VmIds, NEW by \in Runs, NEW state \in {"up", "gone"},
         Boots(v, by, state)
  PROVE  /\ vm' \in [VmIds -> Vms]
         /\ vm'[v] = [state |-> state, by |-> by, disk |-> file["disk"], seed |-> file["seed"],
                      nvram |-> file["nvram"], key |-> seed.key, simulate |-> seed.simulate]
         /\ \A w \in VmIds : w # v => vm'[w] = vm[w]
<1>1. file["disk"] \in File /\ file["seed"] \in File /\ file["nvram"] \in File
  BY DEF FileType, Artifacts
<1>2. seed.key \in Runs /\ seed.simulate \in BOOLEAN
  BY DEF KeyType
<1> QED
  BY <1>1, <1>2 DEF VmType, Vms, Boots

LEMMA VmsEndEffect ==
  ASSUME VmType, NEW ended \in SUBSET VmIds, VmsEnd(ended)
  PROVE  /\ vm' \in [VmIds -> Vms]
         /\ \A w \in VmIds : vm'[w] = [vm[w] EXCEPT !.state = vm'[w].state]
         /\ \A w \in VmIds : vm'[w].state = "up" => w \notin ended /\ vm'[w] = vm[w]
  BY DEF VmType, Vms, VmsEnd

\* The program's own variables keep their types.
LEMMA ProgTypeStep == SInv /\ [SetupNext]_setupVars => ProgType'
<1> SUFFICES ASSUME ProgType, BoundsAssumption, [SetupNext]_setupVars PROVE ProgType'
  BY TypeParts, BoundsAssumption, OptionsAssumption DEF SInv
<1> USE DEF Goto, Quit, dirVars, keyVars, progVars, ProgType, Points, Runs, Statuses, NoExit, Killed
<1>1. ASSUME NEW o \in Options, Start(o) PROVE ProgType'
  BY <1>1 DEF Start
<1>2. CASE Refuse \/ Located \/ PrefetchOnly
  BY <1>2 DEF Refuse, Located, PrefetchOnly
<1>3. CASE EnsureImage
  BY <1>3 DEF EnsureImage
<1>4. CASE ImagePlaced
  BY <1>4 DEF ImagePlaced
<1>5. CASE Convert
  BY <1>5 DEF Convert
<1>6. CASE Resize
  BY <1>6 DEF Resize
<1>7. CASE DropImage
  BY <1>7 DEF DropImage
<1>8. CASE Templates \/ Summary
  BY <1>8 DEF Templates, Summary
<1>9. CASE Keys
  BY <1>9 DEF Keys
<1>10. CASE KeygenPrivate \/ KeygenPublic
  BY <1>10 DEF KeygenPrivate, KeygenPublic
<1>11. CASE Seed
  BY <1>11 DEF Seed
<1>12. CASE SeedWritten
  BY <1>12 DEF SeedWritten
<1>13. CASE Nvram
  BY <1>13 DEF Nvram
<1>14. CASE NvramCopied
  BY <1>14 DEF NvramCopied
<1>15. CASE Launcher
  BY <1>15 DEF Launcher
<1>16. CASE LauncherWritten
  BY <1>16 DEF LauncherWritten
<1>17. CASE Info
  BY <1>17 DEF Info
<1>18. CASE Launch
  BY <1>18 DEF Launch
<1>19. CASE Stop
  BY <1>19 DEF Stop
<1>20. CASE HandStart
  BY <1>20 DEF HandStart
<1>21. ASSUME NEW ended \in SUBSET VmIds, VmsEnd(ended) PROVE ProgType'
  BY <1>21 DEF VmsEnd
<1>22. CASE UNCHANGED setupVars
  BY <1>22 DEF setupVars
<1> QED
  BY <1>1, <1>2, <1>3, <1>4, <1>5, <1>6, <1>7, <1>8, <1>9, <1>10, <1>11, <1>12, <1>13, <1>14, <1>15, <1>16, <1>17, <1>18, <1>19, <1>20, <1>21, <1>22 DEF SetupNext, SetupStep

\* So do the files.
LEMMA FileTypeStep == SInv /\ [SetupNext]_setupVars => FileType'
<1> SUFFICES ASSUME ProgType, FileType, [SetupNext]_setupVars PROVE FileType'
  BY TypeParts, BoundsAssumption, OptionsAssumption DEF SInv
<1> USE DEF Goto, Quit, dirVars, keyVars, progVars, ProgType, Artifacts
<1>0. UNCHANGED file => FileType'
  BY DEF FileType
<1>1. ASSUME NEW o \in Options, Start(o) PROVE FileType'
  BY <1>1, <1>0 DEF Start
<1>2. CASE Refuse \/ Located \/ PrefetchOnly
  BY <1>2, <1>0 DEF Refuse, Located, PrefetchOnly
<1>3. CASE EnsureImage
  BY <1>3, CreateEffect, <1>0 DEF EnsureImage
<1>4. CASE ImagePlaced
  BY <1>4, FinishEffect, <1>0 DEF ImagePlaced
<1>5. CASE Convert
  BY <1>5, CreateEffect, <1>0 DEF Convert
<1>6. CASE Resize
  BY <1>6, FinishEffect, <1>0 DEF Resize
<1>7. CASE DropImage
  BY <1>7, RemoveEffect, <1>0 DEF DropImage
<1>8. CASE Templates \/ Summary
  BY <1>8, <1>0 DEF Templates, Summary
<1>9. CASE Keys
  BY <1>9, <1>0 DEF Keys
<1>10. CASE KeygenPrivate \/ KeygenPublic
  BY <1>10, <1>0 DEF KeygenPrivate, KeygenPublic
<1>11. CASE Seed
  BY <1>11, CreateEffect, <1>0 DEF Seed
<1>12. CASE SeedWritten
  BY <1>12, FinishEffect, <1>0 DEF SeedWritten
<1>13. CASE Nvram
  BY <1>13, CreateEffect, <1>0 DEF Nvram
<1>14. CASE NvramCopied
  BY <1>14, FinishEffect, <1>0 DEF NvramCopied
<1>15. CASE Launcher
  BY <1>15, CreateEffect, <1>0 DEF Launcher
<1>16. CASE LauncherWritten
  BY <1>16, FinishEffect, <1>0 DEF LauncherWritten
<1>17. CASE Info
  BY <1>17, CreateEffect, InfoEffect, <1>0 DEF Info
<1>18. CASE Launch
  BY <1>18, <1>0 DEF Launch
<1>19. CASE Stop
  BY <1>19, <1>0 DEF Stop
<1>20. CASE HandStart
  BY <1>20, <1>0 DEF HandStart
<1>21. ASSUME NEW ended \in SUBSET VmIds, VmsEnd(ended) PROVE FileType'
  BY <1>21, <1>0 DEF VmsEnd
<1>22. CASE UNCHANGED setupVars
  BY <1>22, <1>0 DEF setupVars
<1> QED
  BY <1>1, <1>2, <1>3, <1>4, <1>5, <1>6, <1>7, <1>8, <1>9, <1>10, <1>11, <1>12, <1>13, <1>14, <1>15, <1>16, <1>17, <1>18, <1>19, <1>20, <1>21, <1>22 DEF SetupNext, SetupStep

\* The keys and the seed.
LEMMA KeyTypeStep == SInv /\ [SetupNext]_setupVars => KeyType'
<1> SUFFICES ASSUME ProgType, KeyType, OptionsAssumption, BoundsAssumption, [SetupNext]_setupVars PROVE KeyType'
  BY TypeParts, BoundsAssumption, OptionsAssumption DEF SInv
<1> USE DEF Goto, Quit, dirVars, keyVars, progVars, ProgType, KeyType, Runs
<1>1. ASSUME NEW o \in Options, Start(o) PROVE KeyType'
  BY <1>1 DEF Start
<1>2. CASE Refuse \/ Located \/ PrefetchOnly
  BY <1>2 DEF Refuse, Located, PrefetchOnly
<1>3. CASE EnsureImage
  BY <1>3 DEF EnsureImage
<1>4. CASE ImagePlaced
  BY <1>4 DEF ImagePlaced
<1>5. CASE Convert
  BY <1>5 DEF Convert
<1>6. CASE Resize
  BY <1>6 DEF Resize
<1>7. CASE DropImage
  BY <1>7 DEF DropImage
<1>8. CASE Templates \/ Summary
  BY <1>8 DEF Templates, Summary
<1>9. CASE Keys
  BY <1>9 DEF Keys
<1>10. CASE KeygenPrivate \/ KeygenPublic
  BY <1>10 DEF KeygenPrivate, KeygenPublic
<1>11. CASE Seed
  BY <1>11 DEF Seed
<1>12. CASE SeedWritten
  BY <1>12 DEF SeedWritten
<1>13. CASE Nvram
  BY <1>13 DEF Nvram
<1>14. CASE NvramCopied
  BY <1>14 DEF NvramCopied
<1>15. CASE Launcher
  BY <1>15 DEF Launcher
<1>16. CASE LauncherWritten
  BY <1>16 DEF LauncherWritten
<1>17. CASE Info
  BY <1>17 DEF Info
<1>18. CASE Launch
  BY <1>18 DEF Launch
<1>19. CASE Stop
  BY <1>19 DEF Stop
<1>20. CASE HandStart
  BY <1>20 DEF HandStart
<1>21. ASSUME NEW ended \in SUBSET VmIds, VmsEnd(ended) PROVE KeyType'
  BY <1>21 DEF VmsEnd
<1>22. CASE UNCHANGED setupVars
  BY <1>22 DEF setupVars
<1> QED
  BY <1>1, <1>2, <1>3, <1>4, <1>5, <1>6, <1>7, <1>8, <1>9, <1>10, <1>11, <1>12, <1>13, <1>14, <1>15, <1>16, <1>17, <1>18, <1>19, <1>20, <1>21, <1>22 DEF SetupNext, SetupStep

\* The VMs.
LEMMA VmTypeStep == SInv /\ [SetupNext]_setupVars => VmType'
<1> SUFFICES ASSUME ProgType, FileType, KeyType, VmType, BoundsAssumption, [SetupNext]_setupVars PROVE VmType'
  BY TypeParts, BoundsAssumption, OptionsAssumption DEF SInv
<1> USE DEF Goto, Quit, dirVars, keyVars, progVars, VmType, Runs, VmIds, ProgType
<1>1. ASSUME NEW o \in Options, Start(o) PROVE VmType'
  BY <1>1 DEF Start
<1>2. CASE Refuse \/ Located \/ PrefetchOnly
  BY <1>2 DEF Refuse, Located, PrefetchOnly
<1>3. CASE EnsureImage
  BY <1>3 DEF EnsureImage
<1>4. CASE ImagePlaced
  BY <1>4 DEF ImagePlaced
<1>5. CASE Convert
  BY <1>5 DEF Convert
<1>6. CASE Resize
  BY <1>6 DEF Resize
<1>7. CASE DropImage
  BY <1>7 DEF DropImage
<1>8. CASE Templates \/ Summary
  BY <1>8 DEF Templates, Summary
<1>9. CASE Keys
  BY <1>9 DEF Keys
<1>10. CASE KeygenPrivate \/ KeygenPublic
  BY <1>10 DEF KeygenPrivate, KeygenPublic
<1>11. CASE Seed
  BY <1>11 DEF Seed
<1>12. CASE SeedWritten
  BY <1>12 DEF SeedWritten
<1>13. CASE Nvram
  BY <1>13 DEF Nvram
<1>14. CASE NvramCopied
  BY <1>14 DEF NvramCopied
<1>15. CASE Launcher
  BY <1>15 DEF Launcher
<1>16. CASE LauncherWritten
  BY <1>16 DEF LauncherWritten
<1>17. CASE Info
  BY <1>17 DEF Info
<1>18. CASE Launch
  <2>1. CASE ~opt.start
    BY <1>18, <2>1 DEF Launch
  <2>2. CASE opt.start
    <3>1. PICK v \in VmIds, state \in {"up", "gone"} : Boots(v, run, state) /\ console' \in IF state = "up" THEN {v} ELSE {0, console}
      BY <1>18, <2>2 DEF Launch
    <3>2. run \in Runs
      BY DEF ProgType
    <3> QED
      BY <1>18, <3>1, <3>2, BootsEffect DEF Launch
  <2> QED
    BY <2>1, <2>2
<1>19. CASE Stop
  BY <1>19 DEF Stop
<1>20. CASE HandStart
  <2>1. PICK v \in VmIds : Boots(v, 0, "up") /\ console' = v
    BY <1>20 DEF HandStart
  <2>2. 0 \in Runs
    BY BoundsAssumption DEF Runs
  <2> QED
    BY <1>20, <2>1, <2>2, BootsEffect DEF HandStart
<1>21. ASSUME NEW ended \in SUBSET VmIds, VmsEnd(ended) PROVE VmType'
  BY <1>21, VmsEndEffect DEF VmsEnd
<1>22. CASE UNCHANGED setupVars
  BY <1>22 DEF setupVars
<1> QED
  BY <1>1, <1>2, <1>3, <1>4, <1>5, <1>6, <1>7, <1>8, <1>9, <1>10, <1>11, <1>12, <1>13, <1>14, <1>15, <1>16, <1>17, <1>18, <1>19, <1>20, <1>21, <1>22 DEF SetupNext, SetupStep

\* An invocation under way.
LEMMA RunStep == SInv /\ [SetupNext]_setupVars => RunOK'
<1> SUFFICES ASSUME ProgType, FileType, RunOK, OptionsAssumption, [SetupNext]_setupVars PROVE RunOK'
  BY TypeParts, BoundsAssumption, OptionsAssumption DEF SInv
<1> USE DEF Goto, Quit, dirVars, keyVars, progVars, ProgType, RunOK, FromDrop, Runs, Points, NoExit, Artifacts, NoFile, Own
<1>0. \A a \in Artifacts : file[a].by \in Nat
  BY DEF FileType, File, Runs
<1>1. ASSUME NEW o \in Options, Start(o) PROVE RunOK'
  BY <1>1, <1>0 DEF Start
<1>2. CASE Refuse \/ Located \/ PrefetchOnly
  BY <1>2, <1>0 DEF Refuse, Located, PrefetchOnly
<1>3. CASE EnsureImage
  BY <1>3, CreateEffect, <1>0 DEF EnsureImage
<1>4. CASE ImagePlaced
  BY <1>4, FinishEffect, <1>0 DEF ImagePlaced
<1>5. CASE Convert
  BY <1>5, CreateEffect, <1>0 DEF Convert
<1>6. CASE Resize
  BY <1>6, FinishEffect, <1>0 DEF Resize
<1>7. CASE DropImage
  BY <1>7, RemoveEffect, <1>0 DEF DropImage
<1>8. CASE Templates \/ Summary
  BY <1>8, <1>0 DEF Templates, Summary
<1>9. CASE Keys
  BY <1>9, <1>0 DEF Keys
<1>10. CASE KeygenPrivate \/ KeygenPublic
  BY <1>10, <1>0 DEF KeygenPrivate, KeygenPublic
<1>11. CASE Seed
  BY <1>11, CreateEffect, <1>0 DEF Seed
<1>12. CASE SeedWritten
  BY <1>12, FinishEffect, <1>0 DEF SeedWritten
<1>13. CASE Nvram
  BY <1>13, CreateEffect, <1>0 DEF Nvram
<1>14. CASE NvramCopied
  BY <1>14, FinishEffect, <1>0 DEF NvramCopied
<1>15. CASE Launcher
  BY <1>15, CreateEffect, <1>0 DEF Launcher
<1>16. CASE LauncherWritten
  BY <1>16, FinishEffect, <1>0 DEF LauncherWritten
<1>17. CASE Info
  BY <1>17, CreateEffect, InfoEffect, <1>0 DEF Info
<1>18. CASE Launch
  BY <1>18, <1>0 DEF Launch
<1>19. CASE Stop
  BY <1>19, <1>0 DEF Stop
<1>20. CASE HandStart
  BY <1>20, <1>0 DEF HandStart
<1>21. ASSUME NEW ended \in SUBSET VmIds, VmsEnd(ended) PROVE RunOK'
  BY <1>21, <1>0 DEF VmsEnd
<1>22. CASE UNCHANGED setupVars
  BY <1>22, <1>0 DEF setupVars
<1> QED
  BY <1>1, <1>2, <1>3, <1>4, <1>5, <1>6, <1>7, <1>8, <1>9, <1>10, <1>11, <1>12, <1>13, <1>14, <1>15, <1>16, <1>17, <1>18, <1>19, <1>20, <1>21, <1>22 DEF SetupNext, SetupStep

\* The disk is this invocation's from convert to its end.
LEMMA DiskStep == SInv /\ [SetupNext]_setupVars => DiskOK'
<1> SUFFICES ASSUME ProgType, FileType, RunOK, DiskOK, [SetupNext]_setupVars PROVE DiskOK'
  BY TypeParts, BoundsAssumption, OptionsAssumption DEF SInv
<1> USE DEF Goto, Quit, dirVars, keyVars, progVars, ProgType, RunOK, DiskOK, FromDrop, BeforeDisk, Runs, Artifacts, NoFile, Own
<1>0. \A a \in Artifacts : file[a].by \in Nat
  BY DEF FileType, File, Runs
<1>1. ASSUME NEW o \in Options, Start(o) PROVE DiskOK'
  BY <1>1, <1>0 DEF Start
<1>2. CASE Refuse \/ Located \/ PrefetchOnly
  BY <1>2, <1>0 DEF Refuse, Located, PrefetchOnly
<1>3. CASE EnsureImage
  BY <1>3, CreateEffect, <1>0 DEF EnsureImage
<1>4. CASE ImagePlaced
  BY <1>4, FinishEffect, <1>0 DEF ImagePlaced
<1>5. CASE Convert
  BY <1>5, CreateEffect, <1>0 DEF Convert
<1>6. CASE Resize
  <2>1. file["disk"].by = run /\ run' = run /\ pc' = "drop"
    BY <1>6 DEF Resize
  <2>2. file'["disk"] = Own'
    BY <1>6, <2>1, FinishEffect DEF Resize
  <2> QED
    BY <1>6, <2>1, <2>2, FinishEffect DEF Resize
<1>7. CASE DropImage
  BY <1>7, RemoveEffect, <1>0 DEF DropImage
<1>8. CASE Templates \/ Summary
  BY <1>8, <1>0 DEF Templates, Summary
<1>9. CASE Keys
  BY <1>9, <1>0 DEF Keys
<1>10. CASE KeygenPrivate \/ KeygenPublic
  BY <1>10, <1>0 DEF KeygenPrivate, KeygenPublic
<1>11. CASE Seed
  BY <1>11, CreateEffect, <1>0 DEF Seed
<1>12. CASE SeedWritten
  BY <1>12, FinishEffect, <1>0 DEF SeedWritten
<1>13. CASE Nvram
  BY <1>13, CreateEffect, <1>0 DEF Nvram
<1>14. CASE NvramCopied
  BY <1>14, FinishEffect, <1>0 DEF NvramCopied
<1>15. CASE Launcher
  BY <1>15, CreateEffect, <1>0 DEF Launcher
<1>16. CASE LauncherWritten
  BY <1>16, FinishEffect, <1>0 DEF LauncherWritten
<1>17. CASE Info
  BY <1>17, CreateEffect, InfoEffect, <1>0 DEF Info
<1>18. CASE Launch
  BY <1>18, <1>0 DEF Launch
<1>19. CASE Stop
  BY <1>19, <1>0 DEF Stop
<1>20. CASE HandStart
  BY <1>20, <1>0 DEF HandStart
<1>21. ASSUME NEW ended \in SUBSET VmIds, VmsEnd(ended) PROVE DiskOK'
  BY <1>21, <1>0 DEF VmsEnd
<1>22. CASE UNCHANGED setupVars
  BY <1>22, <1>0 DEF setupVars
<1> QED
  BY <1>1, <1>2, <1>3, <1>4, <1>5, <1>6, <1>7, <1>8, <1>9, <1>10, <1>11, <1>12, <1>13, <1>14, <1>15, <1>16, <1>17, <1>18, <1>19, <1>20, <1>21, <1>22 DEF SetupNext, SetupStep

\* The seed.
LEMMA SeedStep == SInv /\ [SetupNext]_setupVars => SeedOK'
<1> SUFFICES ASSUME ProgType, FileType, RunOK, SeedOK, [SetupNext]_setupVars PROVE SeedOK'
  BY TypeParts, BoundsAssumption, OptionsAssumption DEF SInv
<1> USE DEF Goto, Quit, dirVars, keyVars, progVars, ProgType, RunOK, SeedOK, FromSeeded, FromNvram, BeforeDisk, BeforeSeed, Runs, Artifacts, NoFile, Own
<1>0. \A a \in Artifacts : file[a].by \in Nat
  BY DEF FileType, File, Runs
<1>1. ASSUME NEW o \in Options, Start(o) PROVE SeedOK'
  BY <1>1, <1>0 DEF Start
<1>2. CASE Refuse \/ Located \/ PrefetchOnly
  BY <1>2, <1>0 DEF Refuse, Located, PrefetchOnly
<1>3. CASE EnsureImage
  BY <1>3, CreateEffect, <1>0 DEF EnsureImage
<1>4. CASE ImagePlaced
  BY <1>4, FinishEffect, <1>0 DEF ImagePlaced
<1>5. CASE Convert
  BY <1>5, CreateEffect, <1>0 DEF Convert
<1>6. CASE Resize
  BY <1>6, FinishEffect, <1>0 DEF Resize
<1>7. CASE DropImage
  BY <1>7, RemoveEffect, <1>0 DEF DropImage
<1>8. CASE Templates \/ Summary
  BY <1>8, <1>0 DEF Templates, Summary
<1>9. CASE Keys
  BY <1>9, <1>0 DEF Keys
<1>10. CASE KeygenPrivate \/ KeygenPublic
  BY <1>10, <1>0 DEF KeygenPrivate, KeygenPublic
<1>11. CASE Seed
  BY <1>11, CreateEffect, <1>0 DEF Seed
<1>12. CASE SeedWritten
  <2>1. file["seed"].by = run /\ run' = run /\ pc' = "nvram"
    BY <1>12 DEF SeedWritten
  <2>2. file'["seed"] = Own'
    BY <1>12, <2>1, FinishEffect DEF SeedWritten
  <2> QED
    BY <1>12, <2>1, <2>2, FinishEffect DEF SeedWritten
<1>13. CASE Nvram
  BY <1>13, CreateEffect, <1>0 DEF Nvram
<1>14. CASE NvramCopied
  BY <1>14, FinishEffect, <1>0 DEF NvramCopied
<1>15. CASE Launcher
  BY <1>15, CreateEffect, <1>0 DEF Launcher
<1>16. CASE LauncherWritten
  BY <1>16, FinishEffect, <1>0 DEF LauncherWritten
<1>17. CASE Info
  BY <1>17, CreateEffect, InfoEffect, <1>0 DEF Info
<1>18. CASE Launch
  BY <1>18, <1>0 DEF Launch
<1>19. CASE Stop
  BY <1>19, <1>0 DEF Stop
<1>20. CASE HandStart
  BY <1>20, <1>0 DEF HandStart
<1>21. ASSUME NEW ended \in SUBSET VmIds, VmsEnd(ended) PROVE SeedOK'
  BY <1>21, <1>0 DEF VmsEnd
<1>22. CASE UNCHANGED setupVars
  BY <1>22, <1>0 DEF setupVars
<1> QED
  BY <1>1, <1>2, <1>3, <1>4, <1>5, <1>6, <1>7, <1>8, <1>9, <1>10, <1>11, <1>12, <1>13, <1>14, <1>15, <1>16, <1>17, <1>18, <1>19, <1>20, <1>21, <1>22 DEF SetupNext, SetupStep

\* The variable store.
LEMMA NvramStep == SInv /\ [SetupNext]_setupVars => NvramOK'
<1> SUFFICES ASSUME ProgType, FileType, RunOK, NvramOK, [SetupNext]_setupVars PROVE NvramOK'
  BY TypeParts, BoundsAssumption, OptionsAssumption DEF SInv
<1> USE DEF Goto, Quit, dirVars, keyVars, progVars, ProgType, NvramOK, FromLauncher, Artifacts, NoFile, Exists
<1>1. ASSUME NEW o \in Options, Start(o) PROVE NvramOK'
  BY <1>1 DEF Start
<1>2. CASE Refuse \/ Located \/ PrefetchOnly
  BY <1>2 DEF Refuse, Located, PrefetchOnly
<1>3. CASE EnsureImage
  BY <1>3, CreateEffect DEF EnsureImage
<1>4. CASE ImagePlaced
  BY <1>4, FinishEffect DEF ImagePlaced
<1>5. CASE Convert
  BY <1>5, CreateEffect DEF Convert
<1>6. CASE Resize
  BY <1>6, FinishEffect DEF Resize
<1>7. CASE DropImage
  BY <1>7, RemoveEffect DEF DropImage
<1>8. CASE Templates \/ Summary
  BY <1>8 DEF Templates, Summary
<1>9. CASE Keys
  BY <1>9 DEF Keys
<1>10. CASE KeygenPrivate \/ KeygenPublic
  BY <1>10 DEF KeygenPrivate, KeygenPublic
<1>11. CASE Seed
  BY <1>11, CreateEffect DEF Seed
<1>12. CASE SeedWritten
  BY <1>12, FinishEffect DEF SeedWritten
<1>13. CASE Nvram
  BY <1>13, CreateEffect DEF Nvram
<1>14. CASE NvramCopied
  <2>1. file'["nvram"].whole /\ file'["nvram"].by = file["nvram"].by /\ pc' = "launcher"
    BY <1>14, FinishEffect DEF NvramCopied
  <2>2. run > 0 /\ file["nvram"].by = run
    BY <1>14 DEF NvramCopied, RunOK
  <2> QED
    BY <2>1, <2>2
<1>15. CASE Launcher
  BY <1>15, CreateEffect DEF Launcher
<1>16. CASE LauncherWritten
  BY <1>16, FinishEffect DEF LauncherWritten
<1>17. CASE Info
  BY <1>17, CreateEffect, InfoEffect DEF Info
<1>18. CASE Launch
  BY <1>18 DEF Launch
<1>19. CASE Stop
  BY <1>19 DEF Stop
<1>20. CASE HandStart
  BY <1>20 DEF HandStart
<1>21. ASSUME NEW ended \in SUBSET VmIds, VmsEnd(ended) PROVE NvramOK'
  BY <1>21 DEF VmsEnd
<1>22. CASE UNCHANGED setupVars
  BY <1>22 DEF setupVars
<1> QED
  BY <1>1, <1>2, <1>3, <1>4, <1>5, <1>6, <1>7, <1>8, <1>9, <1>10, <1>11, <1>12, <1>13, <1>14, <1>15, <1>16, <1>17, <1>18, <1>19, <1>20, <1>21, <1>22 DEF SetupNext, SetupStep

\* The launcher and the credentials.
LEMMA LauncherStep == SInv /\ [SetupNext]_setupVars => LauncherOK'
<1> SUFFICES ASSUME ProgType, FileType, LauncherOK, [SetupNext]_setupVars PROVE LauncherOK'
  BY TypeParts, BoundsAssumption, OptionsAssumption DEF SInv
<1> USE DEF Goto, Quit, dirVars, keyVars, progVars, ProgType, LauncherOK, FromInfo, FromStart, Artifacts, NoFile, Own
<1>1. ASSUME NEW o \in Options, Start(o) PROVE LauncherOK'
  BY <1>1 DEF Start
<1>2. CASE Refuse \/ Located \/ PrefetchOnly
  BY <1>2 DEF Refuse, Located, PrefetchOnly
<1>3. CASE EnsureImage
  BY <1>3, CreateEffect DEF EnsureImage
<1>4. CASE ImagePlaced
  BY <1>4, FinishEffect DEF ImagePlaced
<1>5. CASE Convert
  BY <1>5, CreateEffect DEF Convert
<1>6. CASE Resize
  BY <1>6, FinishEffect DEF Resize
<1>7. CASE DropImage
  BY <1>7, RemoveEffect DEF DropImage
<1>8. CASE Templates \/ Summary
  BY <1>8 DEF Templates, Summary
<1>9. CASE Keys
  BY <1>9 DEF Keys
<1>10. CASE KeygenPrivate \/ KeygenPublic
  BY <1>10 DEF KeygenPrivate, KeygenPublic
<1>11. CASE Seed
  BY <1>11, CreateEffect DEF Seed
<1>12. CASE SeedWritten
  BY <1>12, FinishEffect DEF SeedWritten
<1>13. CASE Nvram
  BY <1>13, CreateEffect DEF Nvram
<1>14. CASE NvramCopied
  BY <1>14, FinishEffect DEF NvramCopied
<1>15. CASE Launcher
  BY <1>15, CreateEffect DEF Launcher
<1>16. CASE LauncherWritten
  <2>1. file["launcher"].by = run /\ run' = run /\ pc' = "info"
    BY <1>16 DEF LauncherWritten
  <2>2. file'["launcher"] = Own'
    BY <1>16, <2>1, FinishEffect DEF LauncherWritten
  <2> QED
    BY <1>16, <2>1, <2>2, FinishEffect DEF LauncherWritten
<1>17. CASE Info
  BY <1>17, CreateEffect, InfoEffect DEF Info
<1>18. CASE Launch
  BY <1>18 DEF Launch
<1>19. CASE Stop
  BY <1>19 DEF Stop
<1>20. CASE HandStart
  BY <1>20 DEF HandStart
<1>21. ASSUME NEW ended \in SUBSET VmIds, VmsEnd(ended) PROVE LauncherOK'
  BY <1>21 DEF VmsEnd
<1>22. CASE UNCHANGED setupVars
  BY <1>22 DEF setupVars
<1> QED
  BY <1>1, <1>2, <1>3, <1>4, <1>5, <1>6, <1>7, <1>8, <1>9, <1>10, <1>11, <1>12, <1>13, <1>14, <1>15, <1>16, <1>17, <1>18, <1>19, <1>20, <1>21, <1>22 DEF SetupNext, SetupStep

\* The key pair, and what was made of it.
LEMMA KeysStep == SInv /\ [SetupNext]_setupVars => KeysOK'
<1> SUFFICES ASSUME ProgType, FileType, KeyType, VmType, RunOK, KeysOK, [SetupNext]_setupVars PROVE KeysOK'
  BY TypeParts, BoundsAssumption, OptionsAssumption DEF SInv
<1> USE DEF Goto, Quit, dirVars, keyVars, progVars, ProgType, KeysOK, RunOK
<1>1. ASSUME NEW o \in Options, Start(o) PROVE KeysOK'
  BY <1>1 DEF Start
<1>2. CASE Refuse \/ Located \/ PrefetchOnly
  BY <1>2 DEF Refuse, Located, PrefetchOnly
<1>3. CASE EnsureImage
  BY <1>3 DEF EnsureImage
<1>4. CASE ImagePlaced
  BY <1>4 DEF ImagePlaced
<1>5. CASE Convert
  BY <1>5 DEF Convert
<1>6. CASE Resize
  BY <1>6 DEF Resize
<1>7. CASE DropImage
  BY <1>7 DEF DropImage
<1>8. CASE Templates \/ Summary
  BY <1>8 DEF Templates, Summary
<1>9. CASE Keys
  BY <1>9 DEF Keys
<1>10. CASE KeygenPrivate \/ KeygenPublic
  BY <1>10 DEF KeygenPrivate, KeygenPublic
<1>11. CASE Seed
  BY <1>11 DEF Seed
<1>12. CASE SeedWritten
  BY <1>12 DEF SeedWritten
<1>13. CASE Nvram
  BY <1>13 DEF Nvram
<1>14. CASE NvramCopied
  BY <1>14 DEF NvramCopied
<1>15. CASE Launcher
  BY <1>15 DEF Launcher
<1>16. CASE LauncherWritten
  BY <1>16 DEF LauncherWritten
<1>17. CASE Info
  BY <1>17 DEF Info
<1>18. CASE Launch
  <2>1. CASE ~opt.start
    BY <1>18, <2>1 DEF Launch
  <2>2. CASE opt.start
    <3>1. PICK v \in VmIds, state \in {"up", "gone"} : Boots(v, run, state) /\ console' \in IF state = "up" THEN {v} ELSE {0, console}
      BY <1>18, <2>2 DEF Launch
    <3>2. run \in Runs
      BY DEF ProgType
    <3>3. \A w \in VmIds :
          vm'[w].key = seed.key \/ vm'[w].key = vm[w].key
      <4>1. /\ vm'[v] = [state |-> state, by |-> run, disk |-> file["disk"], seed |-> file["seed"],
               nvram |-> file["nvram"], key |-> seed.key, simulate |-> seed.simulate]
            /\ \A w \in VmIds : w # v => vm'[w] = vm[w]
        BY <3>1, <3>2, BootsEffect
      <4> QED
        BY <4>1
    <3> QED
      BY <1>18, <3>3 DEF Launch
  <2> QED
    BY <2>1, <2>2
<1>19. CASE Stop
  BY <1>19 DEF Stop
<1>20. CASE HandStart
  <2>1. PICK v \in VmIds : Boots(v, 0, "up") /\ console' = v
    BY <1>20 DEF HandStart
  <2>2. 0 \in Runs
    BY BoundsAssumption DEF Runs
  <2>3. \A w \in VmIds :
        vm'[w].key = seed.key \/ vm'[w].key = vm[w].key
    <3>1. /\ vm'[v] = [state |-> "up", by |-> 0, disk |-> file["disk"], seed |-> file["seed"],
               nvram |-> file["nvram"], key |-> seed.key, simulate |-> seed.simulate]
          /\ \A w \in VmIds : w # v => vm'[w] = vm[w]
      BY <2>1, <2>2, BootsEffect
    <3> QED
      BY <3>1
  <2> QED
    BY <1>20, <2>3 DEF HandStart
<1>21. ASSUME NEW ended \in SUBSET VmIds, VmsEnd(ended) PROVE KeysOK'
  BY <1>21, VmsEndEffect DEF VmsEnd
<1>22. CASE UNCHANGED setupVars
  BY <1>22 DEF setupVars
<1> QED
  BY <1>1, <1>2, <1>3, <1>4, <1>5, <1>6, <1>7, <1>8, <1>9, <1>10, <1>11, <1>12, <1>13, <1>14, <1>15, <1>16, <1>17, <1>18, <1>19, <1>20, <1>21, <1>22 DEF SetupNext, SetupStep

\* What the VMs have open.
LEMMA VmsStep == SInv /\ [SetupNext]_setupVars => VmsOK'
<1> SUFFICES ASSUME ProgType, FileType, KeyType, VmType, RunOK, DiskOK, SeedOK, VmsOK, BoundsAssumption, [SetupNext]_setupVars PROVE VmsOK'
  BY TypeParts, BoundsAssumption, OptionsAssumption DEF SInv
<1> USE DEF Goto, Quit, dirVars, keyVars, progVars, VmsOK, Runs, VmIds, Artifacts, RunOK, ProgType
<1>0. \A v \in VmIds : vm[v].disk.by \in Nat /\ vm[v].seed.by \in Nat /\ vm[v].nvram.by \in Nat
  BY DEF VmType, Vms, File
<1>1. ASSUME NEW o \in Options, Start(o) PROVE VmsOK'
  BY <1>1, <1>0 DEF Start
<1>2. CASE Refuse \/ Located \/ PrefetchOnly
  BY <1>2, <1>0 DEF Refuse, Located, PrefetchOnly
<1>3. CASE EnsureImage
  BY <1>3, CreateEffect, <1>0 DEF EnsureImage
<1>4. CASE ImagePlaced
  BY <1>4, FinishEffect, <1>0 DEF ImagePlaced
<1>5. CASE Convert
  BY <1>5, CreateEffect, <1>0 DEF Convert
<1>6. CASE Resize
  BY <1>6, FinishEffect, <1>0 DEF Resize
<1>7. CASE DropImage
  BY <1>7, RemoveEffect, <1>0 DEF DropImage
<1>8. CASE Templates \/ Summary
  BY <1>8, <1>0 DEF Templates, Summary
<1>9. CASE Keys
  BY <1>9, <1>0 DEF Keys
<1>10. CASE KeygenPrivate \/ KeygenPublic
  BY <1>10, <1>0 DEF KeygenPrivate, KeygenPublic
<1>11. CASE Seed
  BY <1>11, CreateEffect, <1>0 DEF Seed
<1>12. CASE SeedWritten
  BY <1>12, FinishEffect, <1>0 DEF SeedWritten
<1>13. CASE Nvram
  BY <1>13, CreateEffect, <1>0 DEF Nvram
<1>14. CASE NvramCopied
  BY <1>14, FinishEffect, <1>0 DEF NvramCopied
<1>15. CASE Launcher
  BY <1>15, CreateEffect, <1>0 DEF Launcher
<1>16. CASE LauncherWritten
  BY <1>16, FinishEffect, <1>0 DEF LauncherWritten
<1>17. CASE Info
  BY <1>17, CreateEffect, InfoEffect, <1>0 DEF Info
<1>18. CASE Launch
  <2>1. CASE ~opt.start
    BY <1>18, <2>1 DEF Launch
  <2>2. CASE opt.start
    <3>1. PICK v \in VmIds, state \in {"up", "gone"} : Boots(v, run, state) /\ console' \in IF state = "up" THEN {v} ELSE {0, console}
      BY <1>18, <2>2 DEF Launch
    <3>2. run \in Runs
      BY DEF ProgType
    <3>3. \A w \in VmIds :
          vm'[w] = vm[w] \/ (vm'[w].disk = file["disk"] /\ vm'[w].seed = file["seed"] /\ vm'[w].nvram = file["nvram"])
      <4>1. /\ vm'[v] = [state |-> state, by |-> run, disk |-> file["disk"], seed |-> file["seed"],
               nvram |-> file["nvram"], key |-> seed.key, simulate |-> seed.simulate]
            /\ \A w \in VmIds : w # v => vm'[w] = vm[w]
        BY <3>1, <3>2, BootsEffect
      <4> QED
        BY <4>1
    <3> QED
      BY <1>18, <3>3 DEF Launch
  <2> QED
    BY <2>1, <2>2
<1>19. CASE Stop
  BY <1>19, <1>0 DEF Stop
<1>20. CASE HandStart
  <2>1. PICK v \in VmIds : Boots(v, 0, "up") /\ console' = v
    BY <1>20 DEF HandStart
  <2>2. 0 \in Runs
    BY BoundsAssumption DEF Runs
  <2>3. \A w \in VmIds :
        vm'[w] = vm[w] \/ (vm'[w].disk = file["disk"] /\ vm'[w].seed = file["seed"] /\ vm'[w].nvram = file["nvram"])
    <3>1. /\ vm'[v] = [state |-> "up", by |-> 0, disk |-> file["disk"], seed |-> file["seed"],
               nvram |-> file["nvram"], key |-> seed.key, simulate |-> seed.simulate]
          /\ \A w \in VmIds : w # v => vm'[w] = vm[w]
      BY <2>1, <2>2, BootsEffect
    <3> QED
      BY <3>1
  <2> QED
    BY <1>20, <2>3 DEF HandStart
<1>21. ASSUME NEW ended \in SUBSET VmIds, VmsEnd(ended) PROVE VmsOK'
  BY <1>21, VmsEndEffect, <1>0 DEF VmsEnd
<1>22. CASE UNCHANGED setupVars
  BY <1>22, <1>0 DEF setupVars
<1> QED
  BY <1>1, <1>2, <1>3, <1>4, <1>5, <1>6, <1>7, <1>8, <1>9, <1>10, <1>11, <1>12, <1>13, <1>14, <1>15, <1>16, <1>17, <1>18, <1>19, <1>20, <1>21, <1>22 DEF SetupNext, SetupStep

\* Success.
LEMMA WholeStep == SInv /\ [SetupNext]_setupVars => SuccessIsWhole'
<1> SUFFICES ASSUME ProgType, FileType, RunOK, DiskOK, SeedOK, NvramOK, LauncherOK, SuccessIsWhole, [SetupNext]_setupVars PROVE SuccessIsWhole'
  BY TypeParts, BoundsAssumption, OptionsAssumption DEF SInv
<1> USE DEF Goto, Quit, dirVars, keyVars, progVars, SuccessIsWhole, NoExit, Killed, RunOK
<1>1. ASSUME NEW o \in Options, Start(o) PROVE SuccessIsWhole'
  BY <1>1 DEF Start
<1>2. CASE Refuse \/ Located \/ PrefetchOnly
  BY <1>2 DEF Refuse, Located, PrefetchOnly
<1>3. CASE EnsureImage
  BY <1>3, CreateEffect DEF EnsureImage
<1>4. CASE ImagePlaced
  BY <1>4, FinishEffect DEF ImagePlaced
<1>5. CASE Convert
  BY <1>5, CreateEffect DEF Convert
<1>6. CASE Resize
  BY <1>6, FinishEffect DEF Resize
<1>7. CASE DropImage
  BY <1>7, RemoveEffect DEF DropImage
<1>8. CASE Templates \/ Summary
  <2>1. CASE Templates
    BY <1>8, <2>1 DEF Templates
  <2>2. CASE Summary
    BY <2>2 DEF Summary, DiskOK, SeedOK, NvramOK, LauncherOK, FromDrop, FromNvram, FromSeeded, FromLauncher, FromInfo, FromStart, Own
  <2> QED
    BY <1>8, <2>1, <2>2
<1>9. CASE Keys
  BY <1>9 DEF Keys
<1>10. CASE KeygenPrivate \/ KeygenPublic
  BY <1>10 DEF KeygenPrivate, KeygenPublic
<1>11. CASE Seed
  BY <1>11, CreateEffect DEF Seed
<1>12. CASE SeedWritten
  BY <1>12, FinishEffect DEF SeedWritten
<1>13. CASE Nvram
  BY <1>13, CreateEffect DEF Nvram
<1>14. CASE NvramCopied
  BY <1>14, FinishEffect DEF NvramCopied
<1>15. CASE Launcher
  BY <1>15, CreateEffect DEF Launcher
<1>16. CASE LauncherWritten
  BY <1>16, FinishEffect DEF LauncherWritten
<1>17. CASE Info
  BY <1>17, CreateEffect, InfoEffect DEF Info
<1>18. CASE Launch
  BY <1>18 DEF Launch
<1>19. CASE Stop
  BY <1>19 DEF Stop
<1>20. CASE HandStart
  BY <1>20 DEF HandStart
<1>21. ASSUME NEW ended \in SUBSET VmIds, VmsEnd(ended) PROVE SuccessIsWhole'
  BY <1>21 DEF VmsEnd
<1>22. CASE UNCHANGED setupVars
  BY <1>22 DEF setupVars
<1> QED
  BY <1>1, <1>2, <1>3, <1>4, <1>5, <1>6, <1>7, <1>8, <1>9, <1>10, <1>11, <1>12, <1>13, <1>14, <1>15, <1>16, <1>17, <1>18, <1>19, <1>20, <1>21, <1>22 DEF SetupNext, SetupStep

\* SInv is inductive.
LEMMA SInvHolds == SetupSpec => []SInv
<1>1. SetupInit => SInv
  <2> SUFFICES ASSUME SetupInit PROVE SInv
    OBVIOUS
  <2>1. /\ pc = "idle" /\ run = 0 /\ exit = 255 /\ opt \in Options /\ tornVars = FALSE
        /\ priv = 0 /\ pub = 0 /\ console = 0 /\ seed = [key |-> 0, simulate |-> FALSE]
    BY DEF SetupInit, NoExit
  <2>2. \A a \in Artifacts : file[a] = [by |-> 0, whole |-> FALSE]
    BY DEF SetupInit, NoFile
  <2>3. \A v \in VmIds : vm[v] = NoVm
    BY DEF SetupInit
  <2>4. 0 \in Runs
    BY BoundsAssumption DEF Runs
  <2>5. SetupTypeOK
    <3>1. ProgType
      BY <2>1, <2>4 DEF ProgType, Points, Statuses, NoExit
    <3>2. NoFile \in File
      BY <2>4 DEF NoFile, File
    <3>3. FileType
      BY <3>2 DEF SetupInit, FileType
    <3>4. KeyType
      BY <2>1, <2>4 DEF KeyType
    <3>5. VmType
      BY <2>1, <2>4, <3>2 DEF SetupInit, VmType, Vms, NoVm
    <3> QED
      BY <3>1, <3>3, <3>4, <3>5, TypeParts
  <2>6. RunOK
    BY <2>1, <2>2 DEF RunOK, FromDrop
  <2>7. DiskOK /\ SeedOK
    BY <2>1 DEF DiskOK, SeedOK, BeforeDisk, BeforeSeed, FromDrop, FromSeeded, FromNvram
  <2>8. NvramOK /\ LauncherOK
    BY <2>1, <2>2 DEF NvramOK, LauncherOK, FromLauncher, FromInfo, FromStart, Artifacts
  <2>9. KeysOK
    BY <2>1, <2>3 DEF KeysOK, NoVm
  <2>10. VmsOK
    BY <2>1, <2>3 DEF VmsOK, NoVm, NoFile
  <2>11. SuccessIsWhole
    BY <2>1 DEF SuccessIsWhole
  <2> QED
    BY <2>5, <2>6, <2>7, <2>8, <2>9, <2>10, <2>11 DEF SInv
<1>2. SInv /\ [SetupNext]_setupVars => SInv'
  <2> SUFFICES ASSUME SInv, [SetupNext]_setupVars PROVE SInv'
    OBVIOUS
  <2>1. SetupTypeOK'
    <3>1. ProgType' /\ FileType' /\ KeyType' /\ VmType'
      BY ProgTypeStep, FileTypeStep, KeyTypeStep, VmTypeStep
    <3> QED
      BY <3>1 DEF SetupTypeOK, ProgType, FileType, KeyType, VmType, Vms
  <2> QED
    BY <2>1, RunStep, DiskStep, SeedStep, NvramStep, LauncherStep, KeysStep, VmsStep, WholeStep
       DEF SInv
<1> QED
  BY <1>1, <1>2, PTL DEF SetupSpec

-----------------------------------------------------------------------------
(* The theorems. *)

\* Types, for every number of invocations and VMs and every set of command lines.
THEOREM SetupTypeCorrect == SetupSpec => []SetupTypeOK
<1>1. SInv => SetupTypeOK
  BY DEF SInv
<1> QED
  BY <1>1, SInvHolds, PTL

\* However many invocations were killed half way before, and whatever they left: one that
\* builds and exits 0 has left a complete set of files of its own.
THEOREM SuccessLeavesAWholeVm == SetupSpec => []SuccessIsWhole
<1>1. SInv => SuccessIsWhole
  BY DEF SInv
<1> QED
  BY <1>1, SInvHolds, PTL

\* However often the directory is rebuilt under a running VM, and wherever the rebuilding
\* was interrupted: the key of the directory opens it.
THEOREM KeyFitsEveryRunningVm == SetupSpec => []RunningVmReachable
<1>1. SInv => RunningVmReachable
  BY DEF SInv, KeysOK, RunningVmReachable
<1> QED
  BY <1>1, SInvHolds, PTL

\* A file that may be open somewhere changes only while an invocation writes its own.
OpenArtifacts == {"disk", "seed", "nvram"}
OwnWriting(a) == file'[a] = file[a] \/ (pc \notin {"idle", "summary"} /\ file'[a].by = run)

LEMMA FilesStep ==
  ASSUME SInv, [SetupNext]_setupVars, NEW a \in OpenArtifacts
  PROVE  OwnWriting(a)
<1>0. ProgType /\ FileType /\ DiskOK /\ SeedOK /\ NvramOK
  BY TypeParts DEF SInv
<1> USE <1>0 DEF Goto, Quit, dirVars, keyVars, progVars, ProgType, OwnWriting, OpenArtifacts, Artifacts
<1>1. ASSUME NEW o \in Options, Start(o) PROVE OwnWriting(a)
  BY <1>1 DEF Start
<1>2. CASE Refuse \/ Located \/ PrefetchOnly
  BY <1>2 DEF Refuse, Located, PrefetchOnly
<1>3. CASE EnsureImage
  BY <1>3, CreateEffect DEF EnsureImage
<1>4. CASE ImagePlaced
  BY <1>4, FinishEffect DEF ImagePlaced
<1>5. CASE Convert
  BY <1>5, CreateEffect DEF Convert
<1>6. CASE Resize
  BY <1>6, FinishEffect DEF Resize, DiskOK
<1>7. CASE DropImage
  BY <1>7, RemoveEffect DEF DropImage
<1>8. CASE Templates \/ Summary
  BY <1>8 DEF Templates, Summary
<1>9. CASE Keys
  BY <1>9 DEF Keys
<1>10. CASE KeygenPrivate \/ KeygenPublic
  BY <1>10 DEF KeygenPrivate, KeygenPublic
<1>11. CASE Seed
  BY <1>11, CreateEffect DEF Seed
<1>12. CASE SeedWritten
  BY <1>12, FinishEffect DEF SeedWritten, SeedOK
<1>13. CASE Nvram
  BY <1>13, CreateEffect DEF Nvram
<1>14. CASE NvramCopied
  BY <1>14, FinishEffect DEF NvramCopied, NvramOK
<1>15. CASE Launcher
  BY <1>15, CreateEffect DEF Launcher
<1>16. CASE LauncherWritten
  BY <1>16, FinishEffect DEF LauncherWritten
<1>17. CASE Info
  BY <1>17, CreateEffect, InfoEffect DEF Info
<1>18. CASE Launch
  BY <1>18 DEF Launch
<1>19. CASE Stop
  BY <1>19 DEF Stop
<1>20. CASE HandStart
  BY <1>20 DEF HandStart
<1>21. ASSUME NEW ended \in SUBSET VmIds, VmsEnd(ended) PROVE OwnWriting(a)
  BY <1>21 DEF VmsEnd
<1>22. CASE UNCHANGED setupVars
  BY <1>22 DEF setupVars
<1> QED
  BY <1>1, <1>2, <1>3, <1>4, <1>5, <1>6, <1>7, <1>8, <1>9, <1>10, <1>11, <1>12, <1>13, <1>14, <1>15, <1>16, <1>17, <1>18, <1>19, <1>20, <1>21, <1>22 DEF SetupNext, SetupStep

\* Whatever is rebuilt in the directory: no file that a VM has open is written.
THEOREM NoOpenFileIsWritten == SetupSpec => OpenFilesUntouched
<1>1. SInv /\ [SetupNext]_setupVars => [LeavesOpenFiles]_setupVars
  <2> SUFFICES ASSUME SInv, [SetupNext]_setupVars, NEW v \in VmIds
               PROVE  /\ ~Touched(vm[v].disk, "disk")
                      /\ ~Touched(vm[v].seed, "seed")
                      /\ ~Touched(vm[v].nvram, "nvram")
    BY DEF LeavesOpenFiles
  <2>1. OwnWriting("disk") /\ OwnWriting("seed") /\ OwnWriting("nvram")
    BY FilesStep DEF OpenArtifacts
  <2>2. pc \notin {"idle", "summary"} => vm[v].disk.by # run /\ vm[v].seed.by # run /\ vm[v].nvram.by # run
    BY DEF SInv, VmsOK
  <2> QED
    BY <2>1, <2>2 DEF Touched, OwnWriting
<1> QED
  BY <1>1, SInvHolds, PTL DEF SetupSpec, OpenFilesUntouched

-----------------------------------------------------------------------------
(* What setup_vm.py makes of its host. *)

\* "Halving leaves the other half of the cores free", host.py:111: from four cores on;
\* below, the floor of two wins.  Never more than eight.
THEOREM HalfTheCores ==
  ASSUME NEW cores \in Nat
  PROVE  /\ Vcpus(cores) \in 2..8
         /\ cores >= 4 => 2 * Vcpus(cores) <= cores
  BY DEF Vcpus, Greatest, Least, Unknown

\* Half of the memory is left to a host that has 16 GB; "on hosts with < 16 GB the VM may
\* use more than half", host.py:151-152, but never more than the host has if it has 8.
THEOREM HalfTheMemory ==
  ASSUME NEW hostMem \in Nat
  PROVE  /\ MemoryMb(hostMem) \in 8192..32768
         /\ hostMem >= 16384 => 2 * MemoryMb(hostMem) <= hostMem
         /\ hostMem >= 8192 => MemoryMb(hostMem) <= hostMem
  BY DEF MemoryMb, Greatest, Least, Unknown

\* Firmware of another package manager is used only if it is what lies next to the binary:
\* whatever static paths exist, and in whatever combination.
THEOREM NoCrossPrefixFirmware ==
  ASSUME NEW qemuPrefix \in Prefixes, NEW near \in Files, NEW static \in Files,
         ~Cross(qemuPrefix, near)
  PROVE  ~Cross(qemuPrefix, Firmware(qemuPrefix, near, static))
  BY DEF Cross, Firmware, Candidate, Missing, Files

\* A host whose binary has its own firmware next to it boots the VM with that, whatever
\* else is installed; the static paths cannot take it away.
THEOREM OwnFirmwareWins ==
  ASSUME NEW qemuPrefix \in Prefixes,
         NEW nearCode \in Files, NEW nearVars \in Files, Bootable(nearCode, nearVars),
         NEW code \in Files, NEW vars \in Files
  PROVE  /\ Firmware(qemuPrefix, nearCode, code) = nearCode
         /\ Firmware(qemuPrefix, nearVars, vars) = nearVars
  BY DEF Bootable, Firmware, Candidate

=============================================================================
