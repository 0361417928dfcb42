---------------------------- MODULE ServerLauncher ----------------------------
(***************************************************************************)
(* The server the application launches: its process, the stream of its     *)
(* log, and the connection made to it after a while, beside the            *)
(* connections of the user.  src/src/server.rs and                         *)
(* src/src/app/handlers/server.rs.                                         *)
(*                                                                         *)
(* Two readers take the lines of the process's two streams, each until its *)
(* stream ends or cannot be read (a line that is no UTF-8).  The task that *)
(* forwards them passes lines from an unbounded channel to one of the      *)
(* application's, which it gives up on when it is full.  When both readers *)
(* have stopped, whatever the process does, it announces an exit.          *)
(*                                                                         *)
(* Data abstraction: lines are counted; of the two readers, what matters   *)
(* is whether one goes on.  Processes are numbered as they are started.    *)
(***************************************************************************)
EXTENDS Connections

CONSTANTS
  CAP,       \* the 128 messages of the log's channel
  MaxLines,  \* bound: lines all processes write
  MaxStarts  \* bound: processes

ASSUME LauncherAssumption == CAP \in Nat \ {0} /\ {MaxLines, MaxStarts} \subseteq Nat

VARIABLES
  server_config,   \* App.server_config
  server_running,  \* App.server_running
  child,           \* the process of App.server_child, 0 for none
  processes,       \* those started so far
  timers           \* servers to connect to after a while

launcherVars == <<server_config, server_running, child, processes, timers>>
vars == <<connectionVars, launcherVars>>

Ids == 1..Len(processes)

\* What of the servers started before may still come: an exit, a connection.
Awaited ==
  {e \in {"exit", "timer"} :
     CASE e = "exit"  -> \E i \in Ids : processes[i].forwarding \/ processes[i].channel # <<>>
       [] e = "timer" -> timers # {}}

\* A process just started: whether its streams are read, the lines not forwarded yet, the messages not handled yet, and whether the last of them found no room.  For the
\* properties: whether a connection to it is to follow, and what was awaited then.
NewProcess == [state |-> "alive", listen |-> server_config.listen, written |-> 0, lines |-> 0,
               reading |-> TRUE, channel |-> <<>>, forwarding |-> TRUE, full |-> FALSE,
               timed |-> server_config.auto_connect, awaited |-> Awaited]

\* Dropping the handle of a child kills it.
Dropped(ps, how) ==
  [i \in DOMAIN ps |->
     IF i = child /\ ps[i].state = "alive" THEN [ps[i] EXCEPT !.state = how] ELSE ps[i]]

-----------------------------------------------------------------------------
(* The user *)

ConfigChanged(c) ==
  /\ Act("launch")
  /\ server_config' = c
  /\ UNCHANGED <<part, up, storeVars, appVars, server_running, child, processes, timers>>

\* The configuration is saved with the settings; a failure is ignored.
StartServer(cut) ==
  LET new == [settings EXCEPT !.server = server_config]
  IN  /\ Act("launch")
      /\ ~server_running
      /\ server_config.volumes > 0
      /\ Len(processes) < MaxStarts
      /\ GoesOn(cut)
      /\ server_running' = TRUE
      /\ processes' = Append(Dropped(processes, "dropped"), NewProcess)
      /\ child' = Len(processes')
      /\ settings' = new
      /\ Save(new, cut)
      /\ uncertain' = IF cut = "write" THEN Names ELSE uncertain
      /\ timers' = IF server_config.auto_connect
                     THEN timers \union {[server |-> server_config.listen, at |-> child']}
                     ELSE timers
      /\ UNCHANGED <<part, keychain, wanted, appVars, server_config>>

\* handle_server_save_config.
ServerSaveConfig(cut) ==
  LET new == [settings EXCEPT !.server = server_config]
  IN  /\ Act("launch")
      /\ GoesOn(cut)
      /\ settings' = new
      /\ Save(new, cut)
      /\ uncertain' = IF cut = "write" THEN Names ELSE uncertain
      /\ UNCHANGED <<part, keychain, wanted, appVars, launcherVars>>

StopServer ==
  /\ Act("launch")
  /\ server_running
  /\ processes' = Dropped(processes, "stopped")
  /\ child' = 0
  /\ server_running' = FALSE
  /\ UNCHANGED <<part, up, storeVars, appVars, server_config, timers>>

-----------------------------------------------------------------------------
(* The process and its log *)

\* A line that is read; one that nobody reads is lost, or ends the process.
ProcessWrites(i) ==
  /\ processes[i].state = "alive"
  /\ processes[i].reading
  /\ Cardinality({w \in Ids \X (1 .. MaxLines) : w[2] <= processes[w[1]].written}) < MaxLines
  /\ processes' = [processes EXCEPT ![i].written = @ + 1, ![i].lines = @ + 1]
  /\ UNCHANGED <<connectionVars, server_config, server_running, child, timers>>

\* It ends by itself, or as it was killed.
ProcessEnds(i) ==
  /\ processes[i].state # "dead"
  /\ processes' = [processes EXCEPT ![i].state = "dead"]
  /\ UNCHANGED <<connectionVars, server_config, server_running, child, timers>>

\* The later of the readers stops: at the end of its stream, or at what it cannot read.
ReadersEnd(i) ==
  /\ up
  /\ processes[i].reading
  /\ processes' = [processes EXCEPT ![i].reading = FALSE]
  /\ UNCHANGED <<connectionVars, server_config, server_running, child, timers>>

\* A line is forwarded, if the channel has room; otherwise the task receives no more, with
\* which the readers stop, and has its last message to send.
Forward(i) ==
  LET p == processes[i]
  IN  /\ up
      /\ p.forwarding
      /\ p.lines > 0
      /\ processes' = [processes EXCEPT ![i] =
           IF Len(p.channel) < CAP THEN [p EXCEPT !.lines = @ - 1, !.channel = Append(@, "line")]
           ELSE [p EXCEPT !.lines = 0, !.reading = FALSE]]
      /\ UNCHANGED <<connectionVars, server_config, server_running, child, timers>>

\* Mutant: the streams are taken for closed when no line is waiting.
StreamsEndEarly(i) ==
  LET p == processes[i]
  IN  /\ up
      /\ p.forwarding
      /\ p.lines = 0
      /\ processes' = [processes EXCEPT ![i].forwarding = FALSE, ![i].channel = Append(@, "exited")]
      /\ UNCHANGED <<connectionVars, server_config, server_running, child, timers>>

\* Mutant: the end of the streams is not announced.
StreamsEndSilently(i) ==
  LET p == processes[i]
  IN  /\ up
      /\ p.forwarding
      /\ p.lines = 0
      /\ ~p.reading
      /\ processes' = [processes EXCEPT ![i].forwarding = FALSE]
      /\ UNCHANGED <<connectionVars, server_config, server_running, child, timers>>

\* The readers have stopped and what they read is forwarded: an exit is announced, if there
\* is room, whether or not the process has ended.
StreamsEnd(i) ==
  LET p    == processes[i]
      full == Len(p.channel) = CAP
  IN  /\ up
      /\ p.forwarding
      /\ p.lines = 0
      /\ ~p.reading
      /\ processes' = [processes EXCEPT ![i] =
           [p EXCEPT !.forwarding = FALSE, !.full = full,
                     !.channel = IF full THEN @ ELSE Append(@, "exited")]]
      /\ UNCHANGED <<connectionVars, server_config, server_running, child, timers>>

LogLine(i) ==
  /\ up
  /\ processes[i].channel # <<>>
  /\ Head(processes[i].channel) = "line"
  /\ processes' = [processes EXCEPT ![i].channel = Tail(@)]
  /\ UNCHANGED <<connectionVars, server_config, server_running, child, timers>>

\* handle_server_exited: whatever process it was that exited, the child is let go.
ServerExited(i) ==
  /\ up
  /\ processes[i].channel # <<>>
  /\ Head(processes[i].channel) = "exited"
  /\ processes' = Dropped([processes EXCEPT ![i].channel = Tail(@)], "dropped")
  /\ server_running' = FALSE
  /\ child' = 0
  /\ UNCHANGED <<connectionVars, server_config, timers>>

\* The connection after a while, anonymous; nothing if no server is running by then.
AutoConnect(t) ==
  /\ up
  /\ t \in timers
  /\ timers' = timers \ {t}
  /\ IF server_running THEN Connected([server |-> t.server, keys |-> NoKeys], OwnServer)
     ELSE UNCHANGED appVars
  /\ UNCHANGED <<part, up, acts, storeVars, server_config, server_running, child, processes>>

-----------------------------------------------------------------------------
(* The program *)

\* The window is closed, which drops the child.
Quit ==
  /\ Act("save")
  /\ up' = FALSE
  /\ processes' = Dropped(processes, "stopped")
  /\ UNCHANGED <<part, storeVars, appVars, server_config, server_running, child, timers>>

\* App::new, without arguments.
Launch ==
  /\ ~up
  /\ up' = TRUE
  /\ settings' = Load
  /\ server_config' = settings'.server
  /\ client' = [server |-> None, keys |-> NoKeys]
  /\ active' = None
  /\ shown' = Nothing
  /\ requests' = {}
  /\ mixed' = FALSE
  /\ server_running' = FALSE
  /\ child' = 0
  /\ timers' = {}
  /\ processes' = [i \in Ids |-> [processes[i] EXCEPT !.reading = FALSE, !.lines = 0, !.forwarding = FALSE,
                                                     !.channel = <<>>]]
  /\ UNCHANGED <<part, acts, file, keychain, wanted, uncertain>>

Init ==
  /\ part \in Parts
  /\ up = TRUE
  /\ \E first \in FirstSettings :
       /\ file = [connections |-> first.connections, server |-> first.server]
       /\ keychain = first.keychain
  /\ settings = file
  /\ client = [server |-> None, keys |-> NoKeys]
  /\ active = None
  /\ shown = Nothing
  /\ requests = {}
  /\ acts = 0
  /\ wanted = [n \in Names |-> ClientFor(n)]
  /\ uncertain = {}
  /\ mixed = FALSE
  /\ server_config = settings.server
  /\ server_running = FALSE
  /\ child = 0
  /\ processes = <<>>
  /\ timers = {}

User ==
  \/ /\ \/ \E n \in Names, s \in Servers, k \in Keys \union {None},
              cut \in {"none", "access", "secret", "open", "write"} : AddConnection(n, s, k, cut)
        \/ \E n \in Names, k \in {"none", "access", "secret"}, cut \in {"none", "open", "write"} :
             RemoveConnection(n, k, cut)
        \/ \E n \in Names : ConnectTo(n)
        \/ \E v \in Views \ {"probe"} : Refresh(v)
     /\ UNCHANGED launcherVars
  \/ \E c \in Configs : ConfigChanged(c)
  \/ \E cut \in {"none"} \union {c \in {"open", "write"} : "save" \in part} :
       StartServer(cut) \/ ServerSaveConfig(cut)
  \/ StopServer
  \/ Quit
  \/ Launch

System ==
  \/ \E r \in requests : Answer(r) /\ UNCHANGED launcherVars
  \/ \E i \in Ids : \/ ProcessWrites(i) \/ ProcessEnds(i)
                    \/ ReadersEnd(i) \/ Forward(i) \/ StreamsEnd(i)
                    \/ LogLine(i) \/ ServerExited(i)
  \/ \E t \in timers : AutoConnect(t)

Next == User \/ System

Spec == Init /\ [][Next]_vars

\* The log's task and the application's loop go on, and the streams of a process that has
\* ended are read to their end.
FairSpec ==
  /\ Spec
  /\ \A i \in 1..MaxStarts :
       /\ WF_vars(i \in Ids /\ (\/ Forward(i) \/ StreamsEnd(i)
                             \/ (processes[i].state = "dead" /\ ReadersEnd(i))))
       /\ WF_vars(i \in Ids /\ (LogLine(i) \/ ServerExited(i)))

-----------------------------------------------------------------------------
(* Properties *)

Process == [state: {"alive", "stopped", "dropped", "dead"}, listen: Servers, written: Nat,
            lines: Nat, reading: BOOLEAN, channel: Seq({"line", "exited"}), forwarding: BOOLEAN,
            full: BOOLEAN, timed: BOOLEAN, awaited: SUBSET {"exit", "timer"}]

\* TypeOK: the shape of the state, also of settings read back from a torn file, and of
\* what is shown when answers come for a client that was replaced.
TypeOK ==
  /\ {up, mixed, server_running} \subseteq BOOLEAN
  /\ settings \in Settings
  /\ file \in Settings \union {Torn}
  /\ keychain \in [Names -> Pair]
  /\ wanted \in [Names -> [server: Servers \union {None}, keys: Pair]]
  /\ uncertain \subseteq Names
  /\ client \in [server: Servers \union {None}, keys: Pair]
  /\ shown \in [Views -> Servers \union {None}]
  /\ \A r \in requests : r.kind \in Views /\ r.server \in Servers \union {None}
  /\ server_config \in Configs
  /\ processes \in Seq(Process)
  /\ child \in 0 .. Len(processes)
  /\ \A t \in timers : t.server \in Servers

\* Whatever steps of saves and removals fail, and wherever the program ends and is
\* launched again, a name whose own last save did not fail, with no torn file since, has
\* the server and the pair of keys it was saved with, in the program and for the next one.
SavedIsKept ==
  \A n \in Names \ uncertain :
    /\ up => ClientFor(n) = wanted[n]
    /\ file # Torn
    /\ file.connections[n] = wanted[n].server

\* Unless requests were out when the client was replaced, nothing is on the screen of a
\* server but the one connected to; when the answers have come that holds of its nodes
\* too, and everything it has to show is there.
ShownIsOfServer ==
  (up /\ ~mixed /\ client.server # None) =>
    /\ \A v \in Views \ {"nodes"} : shown[v] \in {None, client.server}
    /\ requests = {} =>
         /\ shown["buckets"] # None
         /\ shown["probe"] # None =>
              /\ None \notin {shown["disks"], shown["heal"]}
              /\ client.server \in ClusterServers => shown["nodes"] = client.server

\* A process that runs is let go of only when nobody reads its streams any more, which is
\* taken for its exit, or when it was started before the exit of an earlier one was handled.
\* And once the timer of the server that runs has come, what is connected to as the server is
\* that server, whatever was edited, connected to or stopped before, unless it was started
\* within the time of an earlier one's timer, which may connect to that one's address.
OwnEvents ==
  /\ \A i \in Ids : processes[i].state = "dropped" =>
                      ~processes[i].reading \/ "exit" \in processes[i].awaited
  /\ (/\ up /\ server_running /\ active = OwnServer
      /\ processes[child].timed /\ \A t \in timers : t.at # child
      /\ "timer" \notin processes[child].awaited) =>
       client.server = processes[child].listen

\* The exit of the launched server is noticed, unless there was no room for its log.
ExitNoticed ==
  \A i \in 1..MaxStarts :
    (i \in Ids /\ child = i /\ processes[i].state = "dead")
      ~> (child # i \/ ~up \/ processes[i].full)

\* handle_start_server's comment, src/src/app/handlers/server.rs:143: "streams ended =
\* process exited".  What is announced then makes the application let go of its child.
\* False of a server whose readers have stopped while it runs, and of one that is running
\* when the exit of an earlier one is handled.
ExitIsOfChild == \A i \in Ids : processes[i].state # "dropped"

\* handle_start_server's comment, src/src/app/handlers/server.rs:157: "give the server a
\* moment to bind".  It is the server just started; false of a timer that an earlier one left.
AutoConnectIsOfChild ==
  up => \A t \in timers : server_running => t.server = processes[child].listen

=============================================================================
