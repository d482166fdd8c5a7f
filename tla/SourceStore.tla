---------------------------- MODULE SourceStore ----------------------------
(***************************************************************************)
(* LocalSourceStore (source_store.py): a project's source arrives as text, *)
(* as a ZIP archive, from a git repository or as a directory of the host,  *)
(* is kept under its digest, is checked again when a script version refers *)
(* to it and is unpacked into the workspace of a run.  Threads of the API  *)
(* import at the same time; the API may be killed, a disk may damage a     *)
(* file, git may fail or hang.  Sizes are counted in chunks of the reader; *)
(* one source is followed.                                                 *)
(***************************************************************************)
EXTENDS Naturals, Sequences, FiniteSets, FiniteSetsExt

CONSTANTS
    Sources,       \* records [kind, chunks, entries, threads]: see SourceAssumption
    Fold,          \* casefold: the name under which a file system finds a name
    Parents,       \* proper prefixes of a name that are directories
    Unsafe,        \* names that _archive_path refuses
    MaxArchive,    \* chunks of MAX_ARCHIVE_BYTES
    MaxExpanded,   \* chunks of MAX_ARCHIVE_EXPANDED_BYTES
    MaxFiles,      \* MAX_ARCHIVE_FILES
    Jobs,          \* threads that import
    GitSlots,      \* imports from git at a time (2)
    MaxFaults      \* crashes, damaged files, disk errors

Names == DOMAIN Fold

ASSUME SourceAssumption ==
    /\ Parents \in [Names -> SUBSET Names] /\ Unsafe \subseteq Names
    /\ {MaxArchive, MaxExpanded, MaxFiles, GitSlots, MaxFaults} \subseteq Nat
    /\ \A c \in Sources :
          /\ c.kind \in {"text", "zip", "host"} /\ c.chunks \in Nat \ {0}
          /\ c.threads \subseteq Jobs
          /\ c.entries \in Seq([name : Names, dir : BOOLEAN, plain : BOOLEAN,
                                declared : Nat, actual : Nat])

VARIABLES
    source,
    file,         \* the file of the source's digest, and of its beginning's:
                  \* "none", "tmp" (only a temporary one), "whole" or "broken"
    step, part,     \* per job; whether what it holds is the source or only its beginning
    slots,        \* _git_slots
    process,      \* per job: git archive: "none", "running", "exited", "failed"
    held,         \* per job: a child of git has its stdout and may outlive it
    written, got, \* chunks git has written to the pipe, and the reader appended
    reader,       \* per job: the thread: "none", "reading" (in stdout.read), "chunk"
                  \* (it has one to append), "done", "overflow"
    scripts,      \* entrypoints of script versions that refer to the source
    workspace,    \* of the run being prepared
    inside,       \* the host directory is where the settings allow it
    enabled,      \* host_execution_enabled
    faults

jobs == <<step, part, slots, process, held, written, got, reader>>
host == <<inside, enabled>>
storeVars == <<source, file, jobs, scripts, workspace, host, faults>>

Parts == {"all", "beginning"}
Empty == [state |-> "none", entry |-> "none", good |-> TRUE, next |-> 1, files |-> {}, size |-> 0]

StoreInit ==
    /\ source \in Sources
    /\ file = [p \in Parts |-> "none"]
    /\ step = [j \in Jobs |-> "idle"] /\ part = [j \in Jobs |-> "all"]
    /\ slots = GitSlots
    /\ process = [j \in Jobs |-> "none"] /\ reader = [j \in Jobs |-> "none"]
    /\ held = [j \in Jobs |-> FALSE]
    /\ written = [j \in Jobs |-> 0] /\ got = [j \in Jobs |-> 0]
    /\ scripts = {} /\ workspace = Empty
    /\ inside = TRUE /\ enabled = TRUE
    /\ faults = 0

Fault == faults < MaxFaults /\ faults' = faults + 1

-----------------------------------------------------------------------------
(* _archive_entries: what a ZIP must be to be accepted                     *)

FilesOf(c) == {i \in DOMAIN c.entries : ~c.entries[i].dir}
FileNames(c) == {c.entries[i].name : i \in FilesOf(c)}

\* Mutant: names that differ in case are different.
NoDuplicatesExact(c) ==
    \A i, k \in DOMAIN c.entries : i # k => c.entries[i].name # c.entries[k].name

NoDuplicates(c) ==
    \A i, k \in DOMAIN c.entries : i # k => Fold[c.entries[i].name] # Fold[c.entries[k].name]

NoFileIsParent(c) ==
    \A i, k \in FilesOf(c) :
        \A p \in Parents[c.entries[k].name] : Fold[p] # Fold[c.entries[i].name]

\* total and actual are added up file by file, in the order of the archive.
AddedUp(sizes) ==
    LET total[i \in 0..Len(sizes)] == IF i = 0 THEN 0 ELSE total[i - 1] + sizes[i]
    IN total[Len(sizes)]

DeclaredSize(c) ==
    AddedUp([i \in 1..Len(c.entries) |-> IF c.entries[i].dir THEN 0 ELSE c.entries[i].declared])
ActualSize(c) ==
    AddedUp([i \in 1..Len(c.entries) |-> IF c.entries[i].dir THEN 0 ELSE c.entries[i].actual])

\* The directory of a ZIP is at its end: its beginning is not a ZIP.
ArchiveEntries(c, p, verify) ==
    /\ p = "all"
    /\ \A i \in DOMAIN c.entries : c.entries[i].name \notin Unsafe /\ c.entries[i].plain
    /\ NoDuplicates(c) /\ NoFileIsParent(c)
    /\ Cardinality(FilesOf(c)) \in 1..MaxFiles /\ DeclaredSize(c) <= MaxExpanded
    /\ verify => ActualSize(c) <= MaxExpanded

\* _host_directory, _host_interpreter
HostInside == enabled /\ inside

\* put, put_archive and register_host: what each of them accepts
PutAccepts(p) ==
    CASE source.kind = "text" -> source.chunks <= MaxArchive
      [] source.kind = "zip" -> source.chunks <= MaxArchive /\ ArchiveEntries(source, p, TRUE)
      [] source.kind = "host" -> HostInside

-----------------------------------------------------------------------------
(* put, put_archive and _atomic_write                                      *)

Job(j, from, to) == step[j] = from /\ step' = [step EXCEPT ![j] = to]

\* It came by import_git and has one of its slots.
GitJob(j) == step[j] = "fetch" \/ reader[j] # "none"

\* The slot of a git import is given back in its finally clause.
ImportOver(j, from, to) ==
    /\ Job(j, from, to)
    /\ slots' = IF GitJob(j) THEN slots + 1 ELSE slots
    /\ reader' = [reader EXCEPT ![j] = "none"] /\ process' = [process EXCEPT ![j] = "none"]
    /\ held' = [held EXCEPT ![j] = FALSE]
    /\ written' = [written EXCEPT ![j] = 0] /\ got' = [got EXCEPT ![j] = 0]
    /\ part' = [part EXCEPT ![j] = "all"]

Rest == UNCHANGED <<source, scripts, workspace, host>>
GitUnchanged == UNCHANGED <<slots, process, held, written, got, reader>>

Upload(j) ==
    /\ j \in source.threads
    /\ Job(j, "idle", "put") /\ UNCHANGED part /\ GitUnchanged
    /\ UNCHANGED <<file, faults>> /\ Rest

\* Mutant: the file is written under its final name.
PutBytesInPlace(j) ==
    /\ PutAccepts(part[j])
    /\ Job(j, "put", "replace")
    /\ file' = [file EXCEPT ![part[j]] = IF @ = "whole" THEN @ ELSE "broken"]
    /\ UNCHANGED <<part, faults>> /\ GitUnchanged /\ Rest

\* The temporary file is written; os.replace follows.
PutBytes(j) ==
    /\ PutAccepts(part[j])
    /\ Job(j, "put", "replace")
    /\ file' = [file EXCEPT ![part[j]] = IF @ = "none" THEN "tmp" ELSE @]
    /\ UNCHANGED <<part, faults>> /\ GitUnchanged /\ Rest

Replace(j) ==
    /\ ImportOver(j, "replace", "stored")
    /\ file' = [file EXCEPT ![part[j]] = "whole"]
    /\ UNCHANGED faults /\ Rest

PutRefused(j) ==
    /\ ImportOver(j, "put", "failed") /\ ~PutAccepts(part[j])
    /\ UNCHANGED <<file, faults>> /\ Rest

-----------------------------------------------------------------------------
(* import_git: two at a time, nobody waits for a slot                      *)

ImportGit(j) ==
    /\ source.kind = "zip" /\ j \in source.threads
    /\ IF slots = 0 THEN Job(j, "idle", "failed") /\ UNCHANGED slots
                    ELSE Job(j, "idle", "fetch") /\ slots' = slots - 1
    /\ UNCHANGED <<part, process, held, written, got, reader, file, faults>> /\ Rest

\* _git_url, _git_ref, init, remote add and fetch, each with its time limit;
\* then git archive and the thread that reads its output are started.  The command
\* may be a wrapper (git.exe is one on Windows): a child then writes to the pipe too.
Fetched(j) ==
    /\ Job(j, "fetch", "join")
    /\ process' = [process EXCEPT ![j] = "running"]
    /\ \E child \in BOOLEAN : held' = [held EXCEPT ![j] = child]
    /\ reader' = [reader EXCEPT ![j] = "reading"]
    /\ UNCHANGED <<part, slots, written, got, file, faults>> /\ Rest

FetchFails(j) ==
    /\ ImportOver(j, "fetch", "failed") /\ UNCHANGED <<file, faults>> /\ Rest

\* The pipe holds one chunk beside the one the reader may have in its hand.
PipeHasRoom(j) == written[j] - got[j] < IF reader[j] = "chunk" THEN 2 ELSE 1

\* git archive: it writes while the pipe has room, ends, fails or hangs, and so
\* does the child, which the death of its parent does not end.
Archive(j) ==
    /\ \/ /\ process[j] = "running" \/ held[j]
          /\ written[j] < source.chunks /\ PipeHasRoom(j)
          /\ written' = [written EXCEPT ![j] = @ + 1] /\ UNCHANGED <<process, held>>
       \/ /\ process[j] = "running" /\ written[j] = source.chunks
          /\ process' = [process EXCEPT ![j] = "exited"] /\ UNCHANGED <<written, held>>
       \/ /\ process[j] = "running"
          /\ process' = [process EXCEPT ![j] = "failed"] /\ UNCHANGED <<written, held>>
       \/ /\ held[j]
          /\ held' = [held EXCEPT ![j] = FALSE] /\ UNCHANGED <<written, process>>
    /\ UNCHANGED <<step, part, slots, got, reader, file, faults>> /\ Rest

Killed(j) == [process EXCEPT ![j] = IF @ = "running" THEN "failed" ELSE @]

\* process.stdout is open until the finally clause of _run_git_archive closes it.
StdoutOpen(j) == step[j] \in {"join", "rejoin", "wait", "close", "abandon"}

\* consume: the reader thread.  A read ends with a chunk, or when nobody has the
\* pipe any more; on a closed file it raises.
Consume(j) ==
    /\ \/ /\ reader[j] = "reading" /\ written[j] > got[j]
          /\ reader' = [reader EXCEPT ![j] = "chunk"] /\ UNCHANGED <<got, process>>
       \/ /\ reader[j] = "reading" /\ written[j] = got[j] /\ process[j] # "running" /\ ~held[j]
          /\ reader' = [reader EXCEPT ![j] = "done"] /\ UNCHANGED <<got, process>>
       \/ /\ reader[j] = "chunk" /\ got[j] < MaxArchive
          /\ got' = [got EXCEPT ![j] = @ + 1]
          /\ reader' = [reader EXCEPT ![j] = IF StdoutOpen(j) THEN "reading" ELSE "done"]
          /\ UNCHANGED process
       \/ /\ reader[j] = "chunk" /\ got[j] >= MaxArchive
          /\ reader' = [reader EXCEPT ![j] = "overflow"] /\ process' = Killed(j)
          /\ UNCHANGED got
    /\ UNCHANGED <<step, part, slots, held, written, file, faults>> /\ Rest

ReaderAlive(j) == reader[j] \in {"reading", "chunk"}

\* Mutant: reader.join() without a time limit.
JoinForever(j) ==
    /\ ~ReaderAlive(j) /\ Job(j, "join", "wait")
    /\ UNCHANGED <<part, slots, process, held, written, got, reader, file, faults>> /\ Rest

\* reader.join(60): it is over, or the time is and git is killed.
Join(j) ==
    /\ IF ReaderAlive(j) THEN Job(j, "join", "rejoin") /\ process' = Killed(j)
                         ELSE Job(j, "join", "wait") /\ UNCHANGED process
    /\ UNCHANGED <<part, slots, held, written, got, reader, file, faults>> /\ Rest

\* reader.join(5), over or not
Rejoin(j) ==
    /\ Job(j, "rejoin", "wait")
    /\ UNCHANGED <<part, slots, process, held, written, got, reader, file, faults>> /\ Rest

\* process.wait(5), perhaps too short even for a git that was killed: it is killed
\* then and waited for.
Wait(j) ==
    /\ \/ process[j] # "running" /\ Job(j, "wait", "close")
       \/ process[j] # "exited" /\ Job(j, "wait", "abandon")
    /\ process' = Killed(j)
    /\ UNCHANGED <<part, slots, held, written, got, reader, file, faults>> /\ Rest

\* stdout.close() on the way out takes the lock that a thread in stdout.read holds:
\* it waits until that read returns, and a reader between two reads ends at its next.
CloseStdout(j) ==
    /\ reader[j] # "reading"
    /\ Job(j, "close", "returned") \/ Job(j, "abandon", "timeout")
    /\ UNCHANGED <<part, slots, process, held, written, got, reader, file, faults>> /\ Rest

\* The checks at the end of _run_git_archive; what remains is put_archive's to check.
Returned(j) ==
    /\ ~ReaderAlive(j) /\ reader[j] # "overflow" /\ process[j] = "exited"
    /\ Job(j, "returned", "put")
    /\ part' = [part EXCEPT ![j] = IF got[j] = source.chunks THEN "all" ELSE "beginning"]
    /\ UNCHANGED <<slots, process, held, written, got, reader, file, faults>> /\ Rest

ArchiveRefused(j) ==
    /\ \/ ImportOver(j, "timeout", "failed")
       \/ /\ ReaderAlive(j) \/ reader[j] = "overflow" \/ process[j] # "exited"
          /\ ImportOver(j, "returned", "failed")
    /\ UNCHANGED <<file, faults>> /\ Rest

-----------------------------------------------------------------------------
(* validate_reference, materialize, _extract_archive                       *)

\* _verified_content, _verified_host_metadata: the digest is computed again.
VerifiedContent == file["all"] = "whole"

\* resolve_host_reference looks at the directory again, every time.
Resolves == source.kind = "host" => HostInside

ValidateReference(entry) ==
    /\ VerifiedContent /\ Resolves
    /\ source.kind = "zip" => ArchiveEntries(source, "all", FALSE) /\ entry \in FileNames(source)
    /\ scripts' = scripts \cup {entry}
    /\ UNCHANGED <<source, file, jobs, workspace, host, faults>>

\* A run of a script version begins in a workspace of its own.
Prepared(entry, readable) ==
    [Empty EXCEPT
        !.entry = entry, !.good = VerifiedContent,
        !.state = IF ~readable \/ ~Resolves THEN "refused"
                  ELSE IF source.kind = "zip" THEN "extract" ELSE "ready",
        !.files = IF readable /\ Resolves /\ source.kind # "zip" THEN {entry} ELSE {}]

Materialize(entry) ==
    /\ workspace.state # "extract" /\ entry \in scripts
    /\ workspace' = Prepared(entry, VerifiedContent)
    /\ UNCHANGED <<source, file, jobs, scripts, host, faults>>

\* destination.exists() or a parent that is a file, as the file system sees names
Occupied(name) ==
    \E f \in workspace.files :
        \/ Fold[f] = Fold[name]
        \/ \E p \in Parents[name] : Fold[f] = Fold[p]
        \/ \E p \in Parents[f] : Fold[p] = Fold[name]

\* One file of the archive, by _atomic_write_stream, or the error that ends it.
Extract ==
    /\ workspace.state = "extract"
    /\ LET rest == {i \in FilesOf(source) : i >= workspace.next}
           e == source.entries[Min(rest)]
           size == workspace.size + e.actual IN
       \/ /\ rest = {}
          /\ workspace' = [workspace EXCEPT !.state =
                             IF workspace.entry \in FileNames(source) THEN "ready" ELSE "refused"]
          /\ UNCHANGED faults
       \/ /\ rest # {}
          /\ workspace' =
               IF Occupied(e.name) \/ size > MaxExpanded
               THEN [workspace EXCEPT !.state = "conflict"]
               ELSE [workspace EXCEPT !.files = @ \cup {e.name}, !.size = size,
                                      !.next = Min(rest) + 1]
          /\ UNCHANGED faults
       \/ rest # {} /\ Fault /\ workspace' = [workspace EXCEPT !.state = "refused"]
    /\ UNCHANGED <<source, file, jobs, scripts, host>>

-----------------------------------------------------------------------------
(* Faults                                                                  *)

\* The API is killed and started again, perhaps with another setting: temporary
\* files and what is stored stay.
Crash ==
    /\ Fault
    /\ step' = [j \in Jobs |-> IF step[j] \in {"idle", "stored"} THEN step[j] ELSE "failed"]
    /\ part' = [j \in Jobs |-> "all"] /\ slots' = GitSlots
    /\ process' = [j \in Jobs |-> "none"] /\ reader' = [j \in Jobs |-> "none"]
    /\ held' = [j \in Jobs |-> FALSE]
    /\ written' = [j \in Jobs |-> 0] /\ got' = [j \in Jobs |-> 0]
    /\ workspace' = Empty
    /\ enabled' \in IF source.kind = "host" THEN BOOLEAN ELSE {enabled}
    /\ UNCHANGED <<source, file, scripts, inside>>

\* The host directory is moved, or becomes a link to another place.
HostMoves ==
    /\ source.kind = "host" /\ Fault /\ inside' = ~inside
    /\ UNCHANGED <<source, file, jobs, scripts, workspace, enabled>>

\* The disk damages a stored file.
Damage ==
    /\ Fault /\ file["all"] = "whole" /\ file' = [file EXCEPT !["all"] = "broken"]
    /\ UNCHANGED <<source, jobs, scripts, workspace, host>>

-----------------------------------------------------------------------------

GitMain(j) ==
    \/ Fetched(j) \/ FetchFails(j) \/ Join(j) \/ Rejoin(j) \/ Wait(j) \/ CloseStdout(j)
    \/ Returned(j) \/ ArchiveRefused(j)
Put(j) == PutBytes(j) \/ Replace(j) \/ PutRefused(j)

StoreNext ==
    \/ \E j \in Jobs : \/ Upload(j) \/ ImportGit(j) \/ Put(j) \/ GitMain(j)
                       \/ Archive(j) \/ Consume(j)
    \/ \E e \in Names : ValidateReference(e) \/ Materialize(e)
    \/ Extract \/ HostMoves \/ Crash \/ Damage

\* A thread of the API that can go on does, the one that reads git's output too: git
\* commands have time limits.  Nothing is assumed of git itself or of its child.
StoreFairness ==
    \A j \in Jobs : WF_storeVars(Put(j) \/ GitMain(j)) /\ WF_storeVars(Consume(j))

StoreSpec == StoreInit /\ [][StoreNext]_storeVars /\ StoreFairness

-----------------------------------------------------------------------------

\* The state has its types: in particular the slots of the semaphore are never
\* more than it was made with (BoundedSemaphore raises on one release too many).
StoreTypeOK ==
    /\ source \in Sources /\ slots \in 0..GitSlots /\ faults \in 0..MaxFaults
    /\ file \in [Parts -> {"none", "tmp", "whole", "broken"}]
    /\ step \in [Jobs -> {"idle", "put", "replace", "stored", "failed", "fetch", "join",
                        "rejoin", "wait", "close", "abandon", "returned", "timeout"}]
    /\ part \in [Jobs -> Parts]
    /\ process \in [Jobs -> {"none", "running", "exited", "failed"}]
    /\ reader \in [Jobs -> {"none", "reading", "chunk", "done", "overflow"}]
    /\ held \in [Jobs -> BOOLEAN]
    /\ scripts \subseteq Names /\ workspace.files \subseteq Names
    /\ inside \in BOOLEAN /\ enabled \in BOOLEAN

\* Every slot that is taken belongs to an import that is still going on, so that
\* failed, timed out and oversized imports never use up the importer for good.
SlotsAreReturned == slots + Cardinality({j \in Jobs : GitJob(j)}) = GitSlots

\* A file stands under its digest completely or not at all, whenever the API is
\* killed and whoever else writes it (_atomic_write): only a disk can break it.
StoredIsWhole ==
    [][\A p \in Parts : file'[p] = "broken" /\ file[p] # "broken" => faults' > faults]_storeVars

\* What _run_git_archive returns although git was not read to its end (its pipe is
\* closed between two reads of a slow reader) never becomes a source.
BeginningIsRefused == file["beginning"] = "none"

\* An archive that was accepted unpacks into an empty workspace, also where names
\* that differ in case are one file and whatever sizes its directory declares.
AcceptedExtracts == workspace.state # "conflict"

\* A run starts with exactly the files of its version, its entrypoint among them,
\* unpacked from a content that has the version's digest.
WorkspaceIsExact ==
    workspace.state = "ready" =>
        /\ workspace.good /\ workspace.entry \in workspace.files
        /\ source.kind = "zip" => workspace.files = FileNames(source)

\* A script version that was accepted can be run: preparing its workspace fails
\* only after a fault (a damaged file, a disk error, a moved directory).
VersionCanRun == workspace.state = "refused" => faults > 0

\* Every import ends, whether git answers, fails, floods the pipe or hangs, unless a
\* child of git keeps the pipe for ever: the reader then stays in its read, and
\* stdout.close() behind it, with the slot of the import.
ImportEnds ==
    \A j \in Jobs :
        []<>~held[j] =>
            (step[j] \notin {"idle", "stored", "failed"} ~> step[j] \in {"stored", "failed"})

\* Nothing but a whole content stands under its digest: neither a write that was
\* cut short nor the beginning of an archive.
OnlyWholeContents == []BeginningIsRefused /\ StoredIsWhole

\* A version that was accepted can be run as it was accepted: it unpacks, into
\* exactly its files, unless something has been damaged since.
AcceptedCanRun == StoreTypeOK /\ AcceptedExtracts /\ WorkspaceIsExact /\ VersionCanRun

\* Every import ends that git's children let go, and gives back the slot it took.
ImportsFinish == []SlotsAreReturned /\ ImportEnds
=============================================================================
