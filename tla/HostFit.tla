-------------------------------- MODULE HostFit --------------------------------
(***************************************************************************)
(* What setup_vm.py makes of the host it finds: the defaults for the VM's  *)
(* cores and memory (host.py) and the firmware that goes with the          *)
(* qemu-system binary (qemu.detect_tools).  Pure functions of the host's   *)
(* facts; each fact may be Unknown, or a file may be missing.              *)
(***************************************************************************)
EXTENDS Integers

Unknown == -1

Least(a, b)    == IF a <= b THEN a ELSE b
Greatest(a, b) == IF a >= b THEN a ELSE b

\* recommended_vcpus(cores)
Vcpus(cores) == IF cores = Unknown THEN 4 ELSE Greatest(2, Least(cores \div 2, 8))

\* recommended_memory_mb(host_mem)
MemoryMb(hostMem) ==
  IF hostMem = Unknown THEN 16384 ELSE Greatest(8192, Least(hostMem \div 2, 32768))

-----------------------------------------------------------------------------
(* Firmware. *)

Missing == [place |-> "none", prefix |-> "none"]
Prefixes == {"none", "/opt/homebrew/", "/usr/local/", "/opt/local/"}

\* Where a file was found, and the package manager it belongs to when its symbolic
\* links are followed; "none" outside the three that _top_level_prefix knows.
Files == [place : {"none", "near", "static"}, prefix : Prefixes]

\* Binary and firmware come from different package managers.
Cross(qemuPrefix, f) ==
  f # Missing /\ qemuPrefix # "none" /\ f.prefix # "none" /\ f.prefix # qemuPrefix

\* The file found next to the binary, else the one at a static path.
Candidate(near, static) == IF near # Missing THEN near ELSE static

\* The code or the variable store that detect_tools returns: a candidate of another
\* package manager is given up for what was found next to the binary.
Firmware(qemuPrefix, near, static) ==
  IF Cross(qemuPrefix, Candidate(near, static)) THEN near ELSE Candidate(near, static)

\* _argv_firmware: an aarch64 guest starts only with both halves.
Bootable(code, vars) == code # Missing /\ vars # Missing

=============================================================================
