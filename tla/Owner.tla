-------------------------------- MODULE Owner --------------------------------
(***************************************************************************)
(* The process that owns the server (main.rs) and its terminal UI's loop   *)
(* (tui.rs): one turn of tui::run draws, looks for the termination signal, *)
(* for the logon limit and for the result of an archive that is opening,   *)
(* and then waits a while for a key.  Archives are opened by threads of    *)
(* their own; what is loaded is published to the share.                    *)
(*                                                                         *)
(* What a key does in the picker is in module Picker, what smb::start and  *)
(* SmbHandle::stop do in module Server, what SmbHandle::load does in       *)
(* module Contents.                                                        *)
(***************************************************************************)
EXTENDS Naturals, Sequences

CONSTANTS
  MaxLoads,   \* bound: archives chosen in a run
  MaxUnloads  \* bound: unloads in a run

ASSUME OwnerAssumption == MaxLoads \in Nat /\ MaxUnloads \in Nat

VARIABLES
  step,     \* where the main thread stands
  turns,    \* the loop of the UI runs, rather than that of serve
  raw,      \* the terminal is in raw mode
  screen,   \* the terminal shows the alternate screen
  loaders,  \* the loader threads: what became of each, and the unloads before it
  opening,  \* the one the loop listens to, or 0: the receiver `opening`
  told,     \* the loaders whose outcome the user has been told
  served,   \* the loader whose archive is published, or 0
  loaded,   \* the one app.loaded describes, or 0
  picking,  \* Mode::Picking
  unloads,  \* how often the archive was unloaded
  signal,   \* a termination signal waits in stop_rx
  refusing  \* the logon limit is reached
uiVars == <<loaders, opening, told, served, loaded, picking, unloads>>
terminalVars == <<raw, screen>>
worldVars == <<signal, refusing>>
ownerVars == <<step, turns, terminalVars, uiVars, worldVars>>

OwnerInit == /\ step = "start" /\ turns \in BOOLEAN
             /\ raw = FALSE /\ screen = FALSE
             /\ loaders = << >> /\ opening = 0 /\ told = {}
             /\ served = 0 /\ loaded = 0
             /\ picking = FALSE /\ unloads = 0
             /\ signal = FALSE /\ refusing = FALSE

Step(from, to) == step = from /\ step' = to /\ UNCHANGED turns

Ended == step \in {"stopped", "panicked"}

InLoop == step \in {"draw", "signal", "limit", "opening", "event"}

-----------------------------------------------------------------------------
(* main, serve and browse, around their loops.                             *)

\* The server runs and an empty root is published.  Without a handler for the
\* signal main returns at once; dropping the handle stops the server.
Starts == /\ \/ Step("start", IF turns THEN "terminal" ELSE "index")
             \/ Step("start", "stopped")
          /\ UNCHANGED <<terminalVars, uiVars, worldVars>>

\* serve: the archive of the command line.
Index == /\ \/ /\ Step("index", "wait")
               /\ loaders' = << [state |-> "ok", unloads |-> 0] >>
               /\ served' = 1 /\ told' = {1}
            \/ /\ Step("index", "stop")
               /\ UNCHANGED <<loaders, served, told>>
         /\ UNCHANGED <<terminalVars, opening, loaded, picking, unloads, worldVars>>

\* recv_timeout.  The limit is looked at when the second has passed.
Wait == /\ \/ signal /\ Step("wait", "stop") /\ signal' = FALSE
           \/ ~signal /\ refusing /\ Step("wait", "stop") /\ UNCHANGED signal
        /\ UNCHANGED <<terminalVars, uiVars, refusing>>

\* browse: raw mode, then the screen, or neither.
EnterTerminal ==
  /\ \/ /\ Step("terminal", "draw")
        /\ raw' = TRUE /\ screen' = TRUE
     \/ /\ Step("terminal", "stop")
        /\ UNCHANGED terminalVars
  /\ UNCHANGED <<uiVars, worldVars>>

\* A mutant of RestoreTerminal: only the screen is left.
RestoreScreen == raw' = raw /\ screen' = FALSE

\* restore_terminal.
RestoreTerminal == raw' = FALSE /\ screen' = FALSE

\* tui::run returns: Quit, or a turn that failed.
LeaveLoop(from) == /\ Step(from, "stop")
                   /\ RestoreTerminal
                   /\ UNCHANGED <<uiVars, worldVars>>

\* handle.stop(), which returns: see Server!StopReturns.
Stops == /\ Step("stop", "stopped")
         /\ UNCHANGED <<terminalVars, uiVars, worldVars>>

\* The hook that restores the terminal, for a panic of the UI thread.
OwnerPanics == /\ InLoop
               /\ step' = "panicked" /\ UNCHANGED turns
               /\ RestoreTerminal
               /\ UNCHANGED <<uiVars, worldVars>>

-----------------------------------------------------------------------------
(* A turn of the loop of tui::run.                                         *)

DrawFails == LeaveLoop("draw")

Draw == /\ Step("draw", "signal")
        /\ UNCHANGED <<terminalVars, uiVars, worldVars>>

\* A mutant of LookForSignal: not while the picker is open.
LookForSignalNormally ==
  /\ \/ /\ signal /\ ~picking
        /\ Step("signal", "stop")
        /\ RestoreTerminal /\ signal' = FALSE
     \/ /\ ~signal \/ picking
        /\ Step("signal", "limit")
        /\ UNCHANGED <<terminalVars, signal>>
  /\ UNCHANGED <<uiVars, refusing>>

LookForSignal ==
  /\ \/ /\ signal
        /\ Step("signal", "stop")
        /\ RestoreTerminal /\ signal' = FALSE
     \/ /\ ~signal
        /\ Step("signal", "limit")
        /\ UNCHANGED <<terminalVars, signal>>
  /\ UNCHANGED <<uiVars, refusing>>

LookForLimit ==
  \/ refusing /\ LeaveLoop("limit")
  \/ /\ ~refusing /\ Step("limit", "opening")
     /\ UNCHANGED <<terminalVars, uiVars, worldVars>>

Done == {i \in DOMAIN loaders : loaders[i].state # "opening"}

\* try_recv of `opening`, and finish_load.
LookForArchive ==
  /\ Step("opening", "event")
  /\ \/ /\ opening \notin Done
        /\ UNCHANGED <<opening, told, served, loaded>>
     \/ /\ opening \in Done
        /\ opening' = 0
        /\ told' = told \union {opening}
        /\ IF loaders[opening].state = "ok"
             THEN served' = opening /\ loaded' = opening
             ELSE UNCHANGED <<served, loaded>>
  /\ UNCHANGED <<terminalVars, loaders, picking, unloads, worldVars>>

\* Nothing for 200 ms, or an event that changes nothing modelled here.
NoKey == /\ Step("event", "draw")
         /\ UNCHANGED <<terminalVars, uiVars, worldVars>>

EventFails == LeaveLoop("event")

\* Ctrl-C in any mode; q and Esc outside the picker.
Quit == LeaveLoop("event")

OpenPicker == /\ ~picking
              /\ Step("event", "draw")
              /\ picking' = TRUE
              /\ UNCHANGED <<terminalVars, loaders, opening, told, served, loaded,
                             unloads, worldVars>>

ClosePicker == /\ picking
               /\ Step("event", "draw")
               /\ picking' = FALSE
               /\ UNCHANGED <<terminalVars, loaders, opening, told, served, loaded,
                              unloads, worldVars>>

\* A mutant of Unload: what is opening stays the loop's business.
UnloadOnly == /\ ~picking /\ unloads < MaxUnloads
              /\ Step("event", "draw")
              /\ served' = 0 /\ loaded' = 0
              /\ unloads' = unloads + 1
              /\ UNCHANGED <<terminalVars, opening, loaders, told, picking, worldVars>>

\* Action::Unload, which abandons an archive that is still opening.
Unload == /\ ~picking /\ unloads < MaxUnloads
          /\ Step("event", "draw")
          /\ opening' = 0
          /\ served' = 0 /\ loaded' = 0
          /\ unloads' = unloads + 1
          /\ UNCHANGED <<terminalVars, loaders, told, picking, worldVars>>

\* A mutant of LoadChosen: the second wins.
LoadChosenSecond ==
  /\ picking /\ Len(loaders) < MaxLoads
  /\ Step("event", "draw")
  /\ picking' = FALSE
  /\ loaders' = Append(loaders, [state |-> "opening", unloads |-> unloads])
  /\ opening' = Len(loaders')
  /\ UNCHANGED <<terminalVars, told, served, loaded, unloads, worldVars>>

\* Action::Load: a thread opens the archive, unless one is opening already.
LoadChosen ==
  /\ picking /\ Len(loaders) < MaxLoads
  /\ Step("event", "draw")
  /\ picking' = FALSE
  /\ IF opening # 0
       THEN UNCHANGED <<loaders, opening>>
       ELSE /\ loaders' = Append(loaders, [state |-> "opening", unloads |-> unloads])
            /\ opening' = Len(loaders')
  /\ UNCHANGED <<terminalVars, told, served, loaded, unloads, worldVars>>

-----------------------------------------------------------------------------
(* The loader threads, and what happens to the process.                    *)

\* open_archive returns an archive or an error, or panics; a panic of a thread
\* that is not the UI's does not restore the terminal.
LoaderEnds(i) == /\ ~Ended
                 /\ loaders[i].state = "opening"
                 /\ \E s \in {"ok", "failed", "died"} :
                      loaders' = [loaders EXCEPT ![i].state = s]
                 /\ UNCHANGED <<step, turns, terminalVars, opening, told, served,
                                loaded, picking, unloads, worldVars>>

Terminate == /\ ~Ended /\ step # "start" /\ ~signal
             /\ signal' = TRUE
             /\ UNCHANGED <<step, turns, terminalVars, uiVars, refusing>>

\* Refusals reach the limit, or a success clears them: module LogonLimit.
Logons == /\ ~Ended
          /\ refusing' = ~refusing
          /\ UNCHANGED <<step, turns, terminalVars, uiVars, signal>>

Around == Starts \/ Index \/ Wait \/ EnterTerminal \/ Stops
Turn == Draw \/ LookForSignal \/ LookForLimit \/ LookForArchive
Key == NoKey \/ Quit \/ OpenPicker \/ ClosePicker \/ Unload \/ LoadChosen

OwnerNext == \/ Around \/ Turn \/ Key
             \/ DrawFails \/ EventFails \/ OwnerPanics
             \/ \E i \in 1 .. Len(loaders) : LoaderEnds(i)
             \/ Terminate \/ Logons

\* The main thread runs: a turn's wait for a key ends with one or without, and
\* an archive is open, or is not, after some time.
OwnerFairness == /\ WF_ownerVars(Around) /\ WF_ownerVars(Turn \/ Key)
                 /\ \A i \in 1 .. MaxLoads :
                      WF_ownerVars(i \in DOMAIN loaders /\ LoaderEnds(i))

OwnerSpec == OwnerInit /\ [][OwnerNext]_ownerVars /\ OwnerFairness

-----------------------------------------------------------------------------
(* Properties.                                                             *)

\* The state has its types.
OwnerTypeOK ==
  /\ InLoop \/ Ended \/ step \in {"start", "index", "wait", "terminal", "stop"}
  /\ loaders \in Seq([state : {"opening", "ok", "failed", "died"},
                      unloads : 0 .. MaxUnloads])
  /\ {opening, served, loaded} \subseteq 0 .. Len(loaders)
  /\ told \subseteq 1 .. Len(loaders)

\* tui::run, Action::Unload: an archive that was chosen before an unload is
\* never published after it, however late it is open; and while the UI runs,
\* what it shows as loaded is what the share serves.
UnloadHolds == /\ served # 0 => loaders[served].unloads = unloads
               /\ turns => loaded = served

\* browse: as long as the UI runs the terminal is its own, whatever becomes of
\* loaders; when the process is over, for any reason, the terminal is as found.
TerminalRight == /\ InLoop => raw /\ screen
                 /\ ~InLoop => ~raw /\ ~screen

\* tui::run, Action::Load: of every archive that is being opened the user
\* learns what became of it, unless an unload comes first or the UI ends.
LoadAnswered ==
  \A i \in 1 .. MaxLoads :
    i \in DOMAIN loaders ~>
      i \in told \/ Ended \/ (i \in DOMAIN loaders /\ unloads > loaders[i].unloads)

\* serve, tui::run: the termination signal ends the process, whatever keys,
\* loads and logons go on.
SignalEnds == signal ~> Ended
=============================================================================
