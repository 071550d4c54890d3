---------------------------- MODULE BrokerDaemon ----------------------------
(***************************************************************************)
(* Starting and stopping the credential broker's daemon.  Every command    *)
(* and the app may start it; a pid file says which process it is, a Unix   *)
(* socket is how the app reaches it, and whoever gets the TCP port serves. *)
(* All three are claimed one after the other, and given up by deferred     *)
(* calls that run when brokerRun returns but not when the process is       *)
(* killed.                                                                 *)
(***************************************************************************)
EXTENDS FiniteSets

CONSTANT Daemons   \* the processes that run `broker run`, each with its own pid

Nobody == "nobody"   \* no process: a file that is not there, a port nobody holds

ASSUME DaemonAssumption == IsFiniteSet(Daemons) /\ Nobody \notin Daemons

VARIABLES
  pidFile,    \* the pid in broker.pid
  socketFile, \* the process whose listener control.sock leads to
  tcpPort,    \* the process that holds the port
  stage,      \* how far each process has come
  recycled,   \* pids the system has given to another program
  stopper,    \* `broker stop`: where it is, and the pid it read
  raced       \* history: a start met another start or a stop, and no time has
              \* passed since at which nothing was running

daemonVars == <<pidFile, socketFile, tcpPort, stage, recycled, stopper, raced>>

Owner == Daemons \cup {Nobody}
Starting == {"check", "write", "unlink", "listen", "bind"}
Ending == {"close", "tidy"}

DaemonTypeOK ==
  /\ {pidFile, socketFile, tcpPort} \subseteq Owner
  /\ stage \in [Daemons -> {"off", "serving", "gone"} \cup Starting \cup Ending]
  /\ recycled \subseteq Daemons
  /\ stopper \in [at : {"rest", "kill", "wait"}, pid : Owner]
  /\ raced \in BOOLEAN

NoStop == [at |-> "rest", pid |-> Nobody]

DaemonInit ==
  /\ pidFile = Nobody /\ socketFile = Nobody /\ tcpPort = Nobody
  /\ stage = [d \in Daemons |-> "off"]
  /\ recycled = {}
  /\ stopper = NoStop
  /\ raced = FALSE

Alive(d) == stage[d] \notin {"off", "gone"}

\* Mutant: the pid file of a daemon of our own is not believed.
PidFileForeign == pidFile # Nobody /\ pidFile \in recycled

\* processAlive(readPid()): any program with that pid will do.
PidFileAlive == pidFile # Nobody /\ (Alive(pidFile) \/ pidFile \in recycled)

Reach(d, where) == stage' = [stage EXCEPT ![d] = where]
Others(d) == {e \in Daemons \ {d} : Alive(e)}

\* d ends: what it has open goes with it, the files stay.
Ends(d, rest) ==
  /\ Reach(d, "gone")
  /\ tcpPort' = IF tcpPort = d THEN Nobody ELSE tcpPort
  /\ raced' = (raced /\ ~(Others(d) = {} /\ rest.at = "rest"))

----------------------------------------------------------------------------
(* brokerRun *)

\* `broker run`, itself or as the child of `broker start`, whose own check comes to the same.
Launch(d) ==
  /\ stage[d] = "off"
  /\ Reach(d, "check")
  /\ UNCHANGED <<pidFile, socketFile, tcpPort, recycled, stopper, raced>>

CheckPidFile(d) ==
  /\ stage[d] = "check"
  /\ IF PidFileAlive
     THEN /\ Ends(d, stopper)
     ELSE /\ Reach(d, "write")
          /\ raced' = (raced \/ stopper.at # "rest"
                             \/ \E e \in Others(d) : stage[e] \in Starting \ {"check"})
          /\ UNCHANGED tcpPort
  /\ UNCHANGED <<pidFile, socketFile, recycled, stopper>>

WritePidFile(d) ==
  /\ stage[d] = "write"
  /\ pidFile' = d
  /\ Reach(d, "unlink")
  /\ UNCHANGED <<socketFile, tcpPort, recycled, stopper, raced>>

\* serveControl removes the socket of whoever had it, then listens, which fails if
\* there is one again.
UnlinkSocket(d) ==
  /\ stage[d] = "unlink"
  /\ socketFile' = Nobody
  /\ Reach(d, "listen")
  /\ UNCHANGED <<pidFile, tcpPort, recycled, stopper, raced>>

ListenSocket(d) ==
  /\ stage[d] = "listen"
  /\ IF socketFile = Nobody
     THEN socketFile' = d /\ Reach(d, "bind")
     ELSE Reach(d, "tidy") /\ UNCHANGED socketFile
  /\ UNCHANGED <<pidFile, tcpPort, recycled, stopper, raced>>

\* ListenAndServe, last; another program may hold the port.
Bind(d) ==
  /\ stage[d] = "bind"
  /\ \/ tcpPort = Nobody /\ tcpPort' = d /\ Reach(d, "serving")
     \/ Reach(d, "close") /\ UNCHANGED tcpPort
  /\ UNCHANGED <<pidFile, socketFile, recycled, stopper, raced>>

\* The deferred calls: closing the listener unlinks the socket's path, and the pid
\* file is removed, whoever they belong to by now.
CloseControl(d) ==
  /\ stage[d] = "close"
  /\ socketFile' = Nobody
  /\ Reach(d, "tidy")
  /\ UNCHANGED <<pidFile, tcpPort, recycled, stopper, raced>>

TidyPidFile(d) ==
  /\ stage[d] = "tidy"
  /\ pidFile' = Nobody
  /\ Ends(d, stopper)
  /\ UNCHANGED <<socketFile, recycled, stopper>>

\* A signal: no deferred call runs.
DaemonKilled(d) ==
  /\ Alive(d)
  /\ Ends(d, stopper)
  /\ UNCHANGED <<pidFile, socketFile, recycled, stopper>>

Recycle(d) ==
  /\ stage[d] = "gone" /\ d \notin recycled
  /\ recycled' = recycled \cup {d}
  /\ UNCHANGED <<pidFile, socketFile, tcpPort, stage, stopper, raced>>

----------------------------------------------------------------------------
(* brokerStop *)

ReadPidToStop ==
  /\ stopper.at = "rest" /\ pidFile # Nobody
  /\ stopper' = [at |-> "kill", pid |-> pidFile]
  /\ raced' = (raced \/ \E d \in Daemons : stage[d] \in Starting \ {"check"})
  /\ UNCHANGED <<pidFile, socketFile, tcpPort, stage, recycled>>

\* SIGTERM; an error, and nothing more, if there is no such process. A program that
\* has been given the pid gets it too, and may end or not.
Terminate ==
  /\ stopper.at = "kill"
  /\ IF Alive(stopper.pid)
     THEN /\ stopper' = [stopper EXCEPT !.at = "wait"]
          /\ Ends(stopper.pid, stopper')
     ELSE /\ \/ stopper' = NoStop
             \/ stopper.pid \in recycled /\ stopper' = [stopper EXCEPT !.at = "wait"]
          /\ UNCHANGED <<stage, tcpPort, raced>>
  /\ UNCHANGED <<pidFile, socketFile, recycled>>

\* 80 ms later or more: the process is dead, and the pid file is removed unread.
RemoveStoppedPid ==
  /\ stopper.at = "wait"
  /\ pidFile' = Nobody
  /\ stopper' = NoStop
  /\ raced' = (raced /\ \E d \in Daemons : Alive(d))
  /\ UNCHANGED <<socketFile, tcpPort, stage, recycled>>

DaemonNext ==
  \/ \E d \in Daemons :
       \/ Launch(d) \/ CheckPidFile(d) \/ WritePidFile(d) \/ UnlinkSocket(d)
       \/ ListenSocket(d) \/ Bind(d) \/ CloseControl(d) \/ TidyPidFile(d)
       \/ DaemonKilled(d) \/ Recycle(d)
  \/ ReadPidToStop \/ Terminate \/ RemoveStoppedPid

DaemonSpec == DaemonInit /\ [][DaemonNext]_daemonVars

----------------------------------------------------------------------------
\* The daemon that serves can be found: the pid file names it, so that no second one
\* is started and `broker stop` stops it, and the control socket leads to it, whatever
\* earlier daemons left behind when they were killed or failed.  Unless a start met
\* another start or a stop, and then only until nothing runs any more.
ServingDaemonCanBeFound ==
  \A d \in Daemons : stage[d] = "serving" /\ ~raced => pidFile = d /\ socketFile = d
=============================================================================
