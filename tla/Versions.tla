---------------------------------- MODULE Versions ----------------------------------
(***************************************************************************)
(* src/lua/check_latest_version.lua: whether the latest release is newer   *)
(* than the firmware.  A version is the three numbers that split_version   *)
(* finds; the request to the release server is external and may give none. *)
(***************************************************************************)
EXTENDS Naturals, TLAPS

Version == [major : Nat, minor : Nat, bugfix : Nat]

(* is_new_version_available, branch by branch *)
IsNewVersionAvailable(current, latest) ==
    \/ current.major < latest.major
    \/ current.major <= latest.major /\ current.minor < latest.minor
    \/ /\ current.major <= latest.major /\ current.minor <= latest.minor
       /\ current.bugfix < latest.bugfix

(* is_firmware_update_available: releases is the answer of the server, at   *)
(* most one version; a foreign repository is not asked for.                 *)
IsFirmwareUpdateAvailable(current, known, releases) ==
    known /\ \E latest \in releases : IsNewVersionAvailable(current, latest)

--------------------------------------------------------------------------------
(* The order of versions: the first number that differs decides. *)
Older(v, w) ==
    \/ v.major < w.major
    \/ v.major = w.major /\ v.minor < w.minor
    \/ v.major = w.major /\ v.minor = w.minor /\ v.bugfix < w.bugfix

(* The script's three tests are looser than the order of versions, and two  *)
(* of them would be wrong without the ones before: "<=" where "=" is meant. *)
(* Taken together they never miss a newer release and never offer an older  *)
(* one.                                                                     *)
THEOREM UpdateIffNewer ==
    ASSUME NEW current \in Version, NEW latest \in Version
    PROVE  IsNewVersionAvailable(current, latest) <=> Older(current, latest)
<1>1. /\ current.major \in Nat /\ current.minor \in Nat /\ current.bugfix \in Nat
      /\ latest.major \in Nat /\ latest.minor \in Nat /\ latest.bugfix \in Nat
  BY DEF Version
<1>2. CASE current.major = latest.major
  BY <1>1, <1>2 DEF IsNewVersionAvailable, Older
<1>3. CASE current.major < latest.major
  BY <1>1, <1>3 DEF IsNewVersionAvailable, Older
<1>4. CASE latest.major < current.major
  BY <1>1, <1>4 DEF IsNewVersionAvailable, Older
<1> QED BY <1>1, <1>2, <1>3, <1>4

(* Updating ends: the release that was installed is not offered again, and  *)
(* nothing ever leads back to the version before it.                        *)
THEOREM UpdateIsNotUndone ==
    ASSUME NEW old \in Version, NEW new \in Version, NEW known,
           IsFirmwareUpdateAvailable(old, TRUE, {new})
    PROVE  /\ ~IsFirmwareUpdateAvailable(new, known, {new})
           /\ ~IsFirmwareUpdateAvailable(new, known, {old})
           /\ ~IsFirmwareUpdateAvailable(new, known, {})
<1>1. Older(old, new)
  BY UpdateIffNewer DEF IsFirmwareUpdateAvailable
<1>2. ~Older(new, new) /\ ~Older(new, old)
  BY <1>1 DEF Older, Version
<1> QED BY <1>2, UpdateIffNewer DEF IsFirmwareUpdateAvailable

================================================================================
