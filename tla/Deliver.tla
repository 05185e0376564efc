------------------------------ MODULE Deliver ------------------------------
(***************************************************************************)
(* How `bao-cred read` hands over what it read: to the standard output, to *)
(* a command, or to a file that several runs may replace at once while     *)
(* disks fail, runs are killed and the machine loses power.  A file is an  *)
(* inode: one per run for its temporary file, whose random name no other   *)
(* run uses, and Old for what the output held before.  Its contents are a  *)
(* number of chunks, of which some have reached the disk.                  *)
(***************************************************************************)
EXTENDS Integers, FiniteSets

CONSTANTS Runs, Old,
          Chunks,         \* chunks of the rendered contents
          Statuses,       \* exit statuses of the command
          MaxKills        \* bound: runs killed

DeliverAssumption ==
    /\ Old \notin Runs
    /\ Chunks \in Nat \ {0}
    /\ Statuses \subseteq 0..127
    /\ MaxKills \in Nat

VARIABLES form,           \* [Runs -> where the contents go]
          pc, failed,     \* failed: what the run returns after its deferred calls
          status,         \* exit status, -1 before the run has one
          inode,          \* [Runs \cup {Old} -> [written, synced : chunks]]
          named,          \* runs whose temporary file has its name
          out,            \* the inode under the output's name
          outs,           \* those it may have after a power loss
          removal,        \* [Runs -> what os.Remove of the temporary file came to]
          child,          \* [Runs -> the command's state]
          interrupted,    \* runs that got SIGINT or SIGTERM
          kills,
          lost            \* whether the machine lost power; it does once

vars == <<form, pc, failed, status, inode, named, out, outs, removal, child, interrupted, kills, lost>>
files == <<inode, named, out, outs, removal>>

Signals == {9, 15}
NoChild == [state |-> "none", status |-> 0]
Children == {NoChild, [state |-> "running", status |-> 0]}
              \cup [state : {"exited"}, status : Statuses] \cup [state : {"signaled"}, status : Signals]
Over == {"exited", "killed"}
PCs == {"render", "create", "chmod", "write", "sync", "close", "rename", "remove",
        "print", "start", "wait"} \cup Over

TypeOK ==
    /\ form \in [Runs -> {"file", "command", "stdout"}]
    /\ pc \in [Runs -> PCs]
    /\ failed \in [Runs -> BOOLEAN]
    /\ status \in [Runs -> {-1, 0, 1} \cup Statuses \cup {128 + s : s \in Signals}]
    /\ inode \in [Runs \cup {Old} -> [written : 0..Chunks, synced : 0..Chunks]]
    /\ named \subseteq Runs
    /\ out \in Runs \cup {Old} /\ out \in outs /\ outs \subseteq Runs \cup {Old}
    /\ removal \in [Runs -> {"none", "done", "refused"}]
    /\ child \in [Runs -> Children]
    /\ interrupted \subseteq Runs
    /\ kills \in 0..MaxKills
    /\ lost \in BOOLEAN

Init ==
    /\ form \in [Runs -> {"file", "command", "stdout"}]
    /\ pc = [r \in Runs |-> "render"]
    /\ failed = [r \in Runs |-> FALSE]
    /\ status = [r \in Runs |-> -1]
    /\ inode = [i \in Runs \cup {Old} |->
                   IF i = Old THEN [written |-> Chunks, synced |-> Chunks] ELSE [written |-> 0, synced |-> 0]]
    /\ named = {} /\ out = Old /\ outs = {Old}
    /\ removal = [r \in Runs |-> "none"]
    /\ child = [r \in Runs |-> NoChild]
    /\ interrupted = {}
    /\ kills = 0 /\ lost = FALSE

-----------------------------------------------------------------------------
Goto(r, next) == pc' = [pc EXCEPT ![r] = next]
\* main: the run ends with this exit status.
Exit(r, s) == Goto(r, "exited") /\ status' = [status EXCEPT ![r] = s]
At(r, label) == pc[r] = label
Rest == UNCHANGED <<form, interrupted, kills, lost>>
\* One step of writeFile and what follows it; an error is kept while the
\* deferred os.Remove runs.
Step(r, here, next) == At(r, here) /\ Goto(r, next) /\ UNCHANGED <<failed, status, child>> /\ Rest
Fail(r, here) ==
    /\ At(r, here) /\ Goto(r, "remove")
    /\ failed' = [failed EXCEPT ![r] = TRUE]
    /\ UNCHANGED <<status, child, files>> /\ Rest

\* The contents are rendered, or the mapped fields resolved, before anything
\* is opened or started; a missing field fails here.
Render(r) ==
    /\ At(r, "render")
    /\ Goto(r, CASE form[r] = "file" -> "create" [] form[r] = "command" -> "start" [] OTHER -> "print")
    /\ UNCHANGED <<failed, status, child, files>> /\ Rest
RenderFails(r) == At(r, "render") /\ Exit(r, 1) /\ UNCHANGED <<failed, child, files>> /\ Rest

WriteStdout(r) ==
    /\ At(r, "print")
    /\ \E s \in {0, 1} : Exit(r, s)
    /\ UNCHANGED <<failed, child, files>> /\ Rest

-----------------------------------------------------------------------------
(* writeFile *)

\* os.Remove of the temporary file: the disk may refuse it, and nobody looks at
\* the error.  After the rename there is nothing under that name.
RemoveTemp(r) ==
    \/ r \in named /\ named' = named \ {r} /\ removal' = [removal EXCEPT ![r] = "done"]
    \/ r \in named /\ removal' = [removal EXCEPT ![r] = "refused"] /\ UNCHANGED named
    \/ r \notin named /\ UNCHANGED <<named, removal>>

CreateTemp(r) ==
    Step(r, "create", "chmod") /\ named' = named \cup {r} /\ UNCHANGED <<inode, out, outs, removal>>
CreateFails(r) == At(r, "create") /\ Exit(r, 1) /\ UNCHANGED <<failed, child, files>> /\ Rest
Chmod(r) == Step(r, "chmod", "write") /\ UNCHANGED files
\* createSecureTemp closes and removes the file itself.
ChmodFails(r) ==
    /\ At(r, "chmod") /\ Exit(r, 1)
    /\ RemoveTemp(r)
    /\ UNCHANGED <<failed, child, inode, out, outs>> /\ Rest
\* Mutant: the copy goes on to close without a sync.
WriteUnsynced(r) ==
    /\ Step(r, "write", IF inode[r].written + 1 = Chunks THEN "close" ELSE "write")
    /\ inode' = [inode EXCEPT ![r].written = @ + 1]
    /\ UNCHANGED <<named, out, outs, removal>>
\* io.Copy, one write at a time.
Write(r) ==
    /\ Step(r, "write", IF inode[r].written + 1 = Chunks THEN "sync" ELSE "write")
    /\ inode' = [inode EXCEPT ![r].written = @ + 1]
    /\ UNCHANGED <<named, out, outs, removal>>
Sync(r) ==
    /\ Step(r, "sync", "close")
    /\ inode' = [inode EXCEPT ![r].synced = inode[r].written]
    /\ UNCHANGED <<named, out, outs, removal>>
Close(r) == Step(r, "close", "rename") /\ UNCHANGED files
\* The name changes at once for every reader; on the disk it may still be the
\* old one until the directory is written.
Rename(r) ==
    /\ Step(r, "rename", "remove")
    /\ named' = named \ {r}
    /\ out' = r /\ outs' = outs \cup {r}
    /\ UNCHANGED <<inode, removal>>
\* Mutant: only the errors before the rename clean up.
WriteFailsUnclean(r) ==
    \/ \E here \in {"write", "sync", "close"} : Fail(r, here)
    \/ At(r, "rename") /\ Exit(r, 1) /\ UNCHANGED <<failed, child, files>> /\ Rest
WriteFails(r) == \E here \in {"write", "sync", "close", "rename"} : Fail(r, here)
\* The deferred os.Remove, on every way out of writeFile.
Remove(r) ==
    /\ At(r, "remove") /\ Exit(r, IF failed[r] THEN 1 ELSE 0)
    /\ RemoveTemp(r)
    /\ UNCHANGED <<failed, child, inode, out, outs>> /\ Rest

-----------------------------------------------------------------------------
(* The command after "--" *)

SetChild(r, state, s) == child' = [child EXCEPT ![r] = [state |-> state, status |-> s]]
Start(r) ==
    /\ At(r, "start") /\ Goto(r, "wait")
    /\ SetChild(r, "running", 0)
    /\ UNCHANGED <<failed, status, files>> /\ Rest
\* No such command, or the context is already cancelled.
StartFails(r) == At(r, "start") /\ Exit(r, 1) /\ UNCHANGED <<failed, child, files>> /\ Rest
ChildEnds(r) ==
    /\ child[r].state = "running"
    /\ \/ \E s \in Statuses : SetChild(r, "exited", s)
       \/ SetChild(r, "signaled", 15)
    /\ UNCHANGED <<pc, failed, status, files>> /\ Rest
\* SIGINT or SIGTERM cancels the context of the run.  Only exec.CommandContext
\* looks at it here.
Interrupt(r) ==
    /\ pc[r] \notin Over /\ r \notin interrupted
    /\ interrupted' = interrupted \cup {r}
    /\ UNCHANGED <<form, pc, failed, status, child, files, kills, lost>>
\* Mutant: exec.Command, which knows no context.
KillChildNever(r) == FALSE /\ r \in interrupted /\ UNCHANGED vars
\* Which kills the command.
KillChild(r) ==
    /\ r \in interrupted /\ At(r, "wait") /\ child[r].state = "running"
    /\ SetChild(r, "signaled", 9)
    /\ UNCHANGED <<pc, failed, status, files>> /\ Rest
\* Mutant: no convention for signals: ExitCode is -1.
commandExitCodePlain(c) == IF c.state = "signaled" THEN -1 ELSE c.status
commandExitCode(c) == IF c.state = "signaled" THEN 128 + c.status ELSE c.status
\* A command that succeeded although the context was cancelled while it still
\* ran is an error of its own.
Collect(r) ==
    /\ At(r, "wait") /\ child[r].state \in {"exited", "signaled"}
    /\ LET code == commandExitCode(child[r])
       IN  \/ Exit(r, code)
           \/ code = 0 /\ r \in interrupted /\ Exit(r, 1)
    /\ UNCHANGED <<failed, child, files>> /\ Rest

-----------------------------------------------------------------------------
\* SIGKILL, which runs no deferred call.
Kill(r) ==
    /\ pc[r] \notin Over /\ kills < MaxKills
    /\ Goto(r, "killed")
    /\ kills' = kills + 1
    /\ UNCHANGED <<form, failed, status, child, files, interrupted, lost>>
\* Chunks that were not synced may be lost, and so may renames and removals.
PowerLoss ==
    /\ ~lost /\ lost' = TRUE
    /\ pc' = [r \in Runs |-> IF pc[r] \in Over THEN pc[r] ELSE "killed"]
    /\ \E kept \in [Runs \cup {Old} -> 0..Chunks] :
          /\ \A i \in Runs \cup {Old} : kept[i] \in inode[i].synced .. inode[i].written
          /\ inode' = [i \in Runs \cup {Old} |-> [written |-> kept[i], synced |-> kept[i]]]
    /\ out' \in outs /\ outs' = {out'}
    /\ named' \in SUBSET ((named \cup outs \cup {r \in Runs : removal[r] = "done"}) \ {out', Old})
    /\ UNCHANGED <<form, failed, status, removal, child, interrupted, kills>>

WriteFile(r) ==
    \/ CreateTemp(r) \/ CreateFails(r) \/ Chmod(r) \/ ChmodFails(r) \/ Write(r)
    \/ Sync(r) \/ Close(r) \/ Rename(r) \/ WriteFails(r) \/ Remove(r)
Steps(r) ==
    Render(r) \/ RenderFails(r) \/ WriteStdout(r) \/ WriteFile(r)
    \/ Start(r) \/ StartFails(r) \/ KillChild(r) \/ Collect(r)
Next == \/ \E r \in Runs : Steps(r) \/ ChildEnds(r) \/ Interrupt(r) \/ Kill(r)
        \/ PowerLoss
Spec == Init /\ [][Next]_vars
\* A run keeps going; a command need not end and nobody has to interrupt.
Fairness == \A r \in Runs : WF_vars(Steps(r))
FairSpec == Spec /\ Fairness

-----------------------------------------------------------------------------
\* Whoever opens the output, at any time and after any crash, reads what it
\* held before or one run's contents to the last byte (writeFile: a temporary
\* file, synced before it is renamed).
OutputIsWhole == inode[out].written = Chunks

\* A run ends with 0 only when it delivered: its file was renamed, its command
\* ended with 0. A run that reports a failure has not touched the output, and
\* a command's failure is passed on in the shell's convention.
StatusTellsDelivery ==
    \A r \in Runs : pc[r] = "exited" =>
        /\ form[r] = "file" /\ ~lost => (status[r] = 0 <=> r \in outs)
        /\ form[r] = "command" /\ child[r].state = "exited" =>
              status[r] = child[r].status \/ (r \in interrupted /\ child[r].status = 0)
        /\ child[r].state = "signaled" => status[r] = 128 + child[r].status
        /\ form[r] = "command" /\ status[r] = 0 => child[r] = [state |-> "exited", status |-> 0]

\* A temporary file, with the secrets in it, that is left behind is that of a
\* run that was killed, of a run whose disk refused the removal, and that ended
\* with an error, or of one whose rename or removal a power loss undid: a run
\* that ends on any of its error paths has tried to remove it (writeFile,
\* createSecureTemp).
NothingLeftBehind ==
    \A r \in named : pc[r] = "exited" =>
        \/ removal[r] = "refused" /\ status[r] = 1
        \/ lost /\ (removal[r] = "done" \/ status[r] = 0)

\* An interrupted run ends, even when its command would go on for ever.
InterruptedRunsEnd == \A r \in Runs : r \in interrupted ~> pc[r] \in Over
=============================================================================
