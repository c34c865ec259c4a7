----------------------------- MODULE StateFile ------------------------------
(***************************************************************************)
(* A JSON file of the state tree (install_state.py:83-103, calibration.py: *)
(* 98-103).  A writer writes a temporary file and renames it over the      *)
(* published one, with no lock.  The temporary name is the same for every  *)
(* writer, so that two writers share one inode, and a writer whose file    *)
(* another one has renamed goes on in the published file itself.           *)
(***************************************************************************)
CONSTANTS
  Writers,
  Absent,  \* there is no such file
  Blank,   \* the file is empty, as open("w") leaves it
  Torn     \* the file holds the remains of two writes

VARIABLES
  pub,  \* the published file
  tmp,  \* <name>.json.tmp
  fd    \* the file each writer has open: "temp", "published", "unlinked", "none"

stateFileVars == <<pub, tmp, fd>>

FdOK == fd \in [Writers -> {"none", "temp", "published", "unlinked"}]

\* write_text opens the temporary file, which creates or truncates it.
Open(w) ==
  /\ fd[w] = "none"
  /\ tmp' = Blank
  /\ fd' = [fd EXCEPT ![w] = "temp"]
  /\ UNCHANGED pub

\* A write at offset zero covers what another writer has put there, or does not.
Over(old, new) == IF old = Blank THEN {new} ELSE {new, Torn}

\* ... and writes and closes it, whatever its name is by then.
Write(w, new) ==
  /\ fd[w] # "none"
  /\ IF fd[w] = "temp" THEN tmp' \in Over(tmp, new) ELSE UNCHANGED tmp
  /\ IF fd[w] = "published" THEN pub' \in Over(pub, new) ELSE UNCHANGED pub
  /\ fd' = [fd EXCEPT ![w] = "none"]

\* The files the open descriptors are of once the temporary file is renamed.
Renamed(where) ==
  CASE where = "temp" -> "published"
    [] where = "published" -> "unlinked"
    [] OTHER -> where

\* tmp.replace(path); there is nothing to rename if another writer has done so.
CanReplace == tmp # Absent

Replace(w) ==
  /\ fd[w] = "none" /\ CanReplace
  /\ pub' = tmp
  /\ tmp' = Absent
  /\ fd' = [v \in Writers |-> Renamed(fd[v])]

\* The writer dies; what it wrote stays.
Close(w) == fd' = [fd EXCEPT ![w] = "none"] /\ UNCHANGED <<pub, tmp>>
=============================================================================
