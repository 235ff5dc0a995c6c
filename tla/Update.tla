-------------------------------- MODULE Update --------------------------------
(***************************************************************************)
(* The update client and server (update_client.cc, update_server.cc) on a  *)
(* machine with locked images (Windows): the updater replaces itself by    *)
(* way of a copy, tmp_censoc_netcpu_update_client.exe, which a start of    *)
(* the machine launches as well (censoc_netcpu_update_client.bat).         *)
(* Contents are numbers of versions; a hash is the version it is of.       *)
(***************************************************************************)
EXTENDS Naturals, Sequences, FiniteSets

CONSTANTS
  MaxVersion,   \* bound: versions of a file
  MaxReboots    \* bound: power cuts, each followed by a start

NoFile == 0                \* no such file
Torn == MaxVersion + 1      \* a file that was being written: its hash is nobody's
Whole == 1 .. MaxVersion
Files == {"exe", "app"}     \* the updater; the processor

VARIABLES
  repo,       \* the server's files (root_path)
  disk,       \* the client's: exe, its copy tmp, the hash of the copy, app
  real, tmp,  \* the two updaters: what each is doing
  stage,      \* of the session: which message is under way
  tosend,     \* peer_connection::tosend of the server, with the hashes it took
  bulk,       \* contents under way
  expected,   \* sha_tmp: the hash of the file that was asked for
  running,    \* what the processors execute, NoFile when there are none
  listed,     \* history: the hash of app in the last list
  reboots     \* number of power cuts so far

vars == <<repo, disk, real, tmp, stage, tosend, bulk, expected, running, listed, reboots>>
session == <<stage, tosend, bulk, expected, listed>>

Valid == disk.tmp \in Whole /\ disk.tmp = disk.sha

-----------------------------------------------------------------------------
(* The updater under its own name.                                         *)

\* run(): when a valid copy of another version exists, this one gives way.
RealStarts ==
  /\ real = "starting"
  /\ real' = IF Valid /\ disk.tmp # disk.exe THEN "off" ELSE "idle"
  /\ UNCHANGED <<repo, disk, tmp, session, running, reboots>>

\* The loop of run(): nuke the processors, connect and handshake.  The server takes
\* the hashes of its files, in the order of readdir (on_processor_id_read).
Connect ==
  /\ real = "idle"
  /\ real' = "session" /\ running' = NoFile
  /\ \E order \in {<<"exe", "app">>, <<"app", "exe">>} :
       tosend' = [k \in 1 .. 2 |-> [name |-> order[k], hush |-> repo[order[k]]]]
  /\ stage' = "meta" /\ listed' = repo["app"]
  /\ UNCHANGED <<repo, disk, tmp, bulk, expected, reboots>>

\* ... or the server is not to be reached.
CannotConnect ==
  /\ real = "idle" /\ running # NoFile
  /\ running' = NoFile
  /\ UNCHANGED <<repo, disk, real, tmp, session, reboots>>

\* Mutant of Agrees: what is there is taken for the version that is listed.
AgreesIfThere(meta) == disk[meta.name] # NoFile

\* on_read of meta, when the file is there: bad; the server passes on to the next file.
Agrees(meta) == disk[meta.name] = meta.hush

ReadMeta ==
  /\ real = "session" /\ stage = "meta"
  /\ LET meta == Head(tosend)
     IN IF Agrees(meta)
        THEN /\ tosend' = Tail(tosend)
             /\ stage' = IF Len(tosend) = 1 THEN "end" ELSE "meta"
             /\ UNCHANGED expected
        ELSE stage' = "good" /\ expected' = meta.hush /\ UNCHANGED tosend
  /\ UNCHANGED <<repo, disk, real, tmp, bulk, running, listed, reboots>>

\* The server's on_read of good: the file is read now, whatever the hash was of.
ReadGood ==
  /\ stage = "good"
  /\ bulk' = [name |-> Head(tosend).name, data |-> repo[Head(tosend).name]]
  /\ tosend' = Tail(tosend) /\ stage' = "bulk"
  /\ UNCHANGED <<repo, disk, real, tmp, expected, running, listed, reboots>>

\* on_read of bulk: the file is written, the updater's into its copy, which must not
\* be running, and takes some time; a write that fails is repeated.
File(name) == IF name = "exe" THEN "tmp" ELSE name

WriteBulk ==
  /\ real = "session" /\ stage = "bulk"
  /\ bulk.name = "exe" => tmp = "off"
  /\ disk' = [disk EXCEPT ![File(bulk.name)] = Torn]
  /\ real' = "writing"
  /\ UNCHANGED <<repo, tmp, session, running, reboots>>

BulkWritten ==
  /\ real = "writing"
  /\ disk' = [disk EXCEPT ![File(bulk.name)] = bulk.data]
  /\ IF bulk.name = "exe" THEN real' = "storing" /\ UNCHANGED stage
     ELSE real' = "session" /\ stage' = IF tosend = <<>> THEN "end" ELSE "meta"
  /\ UNCHANGED <<repo, tmp, tosend, bulk, expected, running, listed, reboots>>

\* The end of a self update: the hash the server has stated is stored ...
StoreSha ==
  /\ real = "storing" /\ disk.sha # Torn
  /\ disk' = [disk EXCEPT !.sha = Torn]
  /\ UNCHANGED <<repo, real, tmp, session, running, reboots>>

\* ... the copy is launched, and this updater quits, in a while.
LaunchTmp ==
  /\ real = "storing" /\ disk.sha = Torn
  /\ disk' = [disk EXCEPT !.sha = expected]
  /\ tmp' = "starting" /\ real' = "quitting" /\ stage' = "none"
  /\ UNCHANGED <<repo, tosend, bulk, expected, running, listed, reboots>>

Quit ==
  /\ real = "quitting" /\ real' = "off"
  /\ UNCHANGED <<repo, disk, tmp, session, running, reboots>>

\* on_read of end_process: launch_processors; the connection stays.
ReadEnd ==
  /\ real = "session" /\ stage = "end"
  /\ running' = disk.app /\ stage' = "open"
  /\ UNCHANGED <<repo, disk, real, tmp, tosend, bulk, expected, listed, reboots>>

\* The connection ends, here or there: io.run returns, the loop goes on.
Disconnected ==
  /\ real = "session"
  /\ real' = "idle" /\ stage' = "none"
  /\ UNCHANGED <<repo, disk, tmp, tosend, bulk, expected, running, listed, reboots>>

-----------------------------------------------------------------------------
(* Its copy.                                                               *)

\* Mutant of Replaces: the copy is not compared with its hash.
ReplacesUnchecked == disk.exe # NoFile /\ disk.exe # disk.tmp

\* The hash of the copy has to be there and to agree.  Then the hash of the real one is
\* taken: file_size throws when there is none, and main does not catch.
Replaces == Valid /\ disk.exe # NoFile /\ disk.exe # disk.tmp

TmpStarts ==
  /\ tmp = "starting"
  /\ tmp' = IF Replaces THEN "replacing" ELSE "off"
  /\ UNCHANGED <<repo, disk, real, session, running, reboots>>

\* remove(target_path): an image that runs is locked, the attempt is repeated.
TmpRemoves ==
  /\ tmp = "replacing" /\ real = "off"
  /\ disk' = [disk EXCEPT !.exe = NoFile]
  /\ tmp' = "copying"
  /\ UNCHANGED <<repo, real, session, running, reboots>>

\* copy_file, in two steps; it may fail, and the loop starts over.
TmpCopies ==
  /\ tmp = "copying" /\ disk.exe = NoFile
  /\ disk' = [disk EXCEPT !.exe = Torn]
  /\ tmp' \in {"copying", "replacing"}
  /\ UNCHANGED <<repo, real, session, running, reboots>>

TmpCopied ==
  /\ tmp = "copying" /\ disk.exe = Torn
  /\ disk' = [disk EXCEPT !.exe = disk.tmp]
  /\ tmp' = "launching"
  /\ UNCHANGED <<repo, real, session, running, reboots>>

TmpLaunches ==
  /\ tmp = "launching"
  /\ real' = "starting" /\ tmp' = "off"
  /\ UNCHANGED <<repo, disk, session, running, reboots>>

-----------------------------------------------------------------------------
\* A file of the server is replaced.
Release(f) ==
  /\ repo[f] < MaxVersion
  /\ repo' = [repo EXCEPT ![f] = @ + 1]
  /\ UNCHANGED <<disk, real, tmp, session, running, reboots>>

\* A power cut, and a start: what is whole of the two updaters is launched.
Reboot ==
  /\ reboots < MaxReboots /\ reboots' = reboots + 1
  /\ real' = IF disk.exe \in Whole THEN "starting" ELSE "off"
  /\ tmp' = IF disk.tmp \in Whole THEN "starting" ELSE "off"
  /\ running' = NoFile /\ stage' = "none" /\ tosend' = <<>>
  /\ UNCHANGED <<repo, disk, bulk, expected, listed>>

\* As installed: the updater and its processor, no copy.
Init ==
  /\ repo = [f \in Files |-> 1]
  /\ disk = [exe |-> 1, tmp |-> NoFile, sha |-> NoFile, app |-> 1]
  /\ real = "starting" /\ tmp = "off"
  /\ stage = "none" /\ tosend = <<>> /\ bulk = [name |-> "app", data |-> NoFile]
  /\ expected = NoFile /\ running = NoFile /\ listed = 0 /\ reboots = 0

Real == \/ RealStarts \/ Connect \/ CannotConnect \/ ReadMeta \/ WriteBulk \/ BulkWritten
        \/ StoreSha \/ LaunchTmp \/ Quit \/ ReadEnd \/ Disconnected
Copy == TmpStarts \/ TmpRemoves \/ TmpCopies \/ TmpCopied \/ TmpLaunches
Next == Real \/ Copy \/ ReadGood \/ Reboot \/ \E f \in Files : Release(f)

Spec == Init /\ [][Next]_vars

-----------------------------------------------------------------------------
\* Whatever is being replaced when the power fails, one whole updater is on the disk: the
\* real one, or its copy with the hash that belongs to it.
UpdaterIsKept == disk.exe \in Whole \/ Valid

\* Processors run a processor.exe that is whole, of the version the server had listed or
\* of a later one, although the session that fetched it may have been cut short before.
ProcessorsAreCurrent == stage = "open" => running \in Whole /\ running >= listed
=============================================================================
