--------------------------- MODULE DeviceSession ---------------------------
(***************************************************************************)
(* What the connection broker promises about each network device: the      *)
(* device's one CLI session is driven by at most one blocking Unicon call  *)
(* at a time (connect, execute or disconnect), a command is only sent on a *)
(* session that is open, and every connect opens a session that was never  *)
(* used before.  The only way out of this discipline is an abandoned       *)
(* disconnect: the broker's shutdown stops waiting for the call, which     *)
(* then runs on beside whatever is done to the device next.                *)
(***************************************************************************)
EXTENDS Naturals

CONSTANT Hosts            \* the devices the broker is asked about

VARIABLES
    job,      \* job[h]: the call in progress on h that somebody waits for
    open,     \* open[h]: the broker holds a session to h
    session,  \* session[h]: how many sessions were opened to h so far
    stray     \* stray[h]: an abandoned disconnect of h: none, running, ended

vars == <<job, open, session, stray>>

Jobs == {"none", "connect", "execute", "disconnect"}

TypeOK ==
    /\ job \in [Hosts -> Jobs]
    /\ open \in [Hosts -> BOOLEAN]
    /\ session \in [Hosts -> Nat]
    /\ stray \in [Hosts -> {"none", "running", "ended"}]

Init ==
    /\ job = [h \in Hosts |-> "none"]
    /\ open = [h \in Hosts |-> FALSE]
    /\ session = [h \in Hosts |-> 0]
    /\ stray = [h \in Hosts |-> "none"]

StartConnect(h) ==
    /\ job[h] = "none" /\ ~open[h]
    /\ job' = [job EXCEPT ![h] = "connect"]
    /\ UNCHANGED <<open, session, stray>>

\* A connect that succeeds opens the next session, on which the caller may
\* go on with its command at once.
Connected(h) ==
    /\ job[h] = "connect"
    /\ \E next \in {"none", "execute"} : job' = [job EXCEPT ![h] = next]
    /\ open' = [open EXCEPT ![h] = TRUE]
    /\ session' = [session EXCEPT ![h] = @ + 1]
    /\ UNCHANGED stray

ConnectFailed(h) ==
    /\ job[h] = "connect"
    /\ job' = [job EXCEPT ![h] = "none"]
    /\ UNCHANGED <<open, session, stray>>

StartExecute(h) ==
    /\ job[h] = "none" /\ open[h]
    /\ job' = [job EXCEPT ![h] = "execute"]
    /\ UNCHANGED <<open, session, stray>>

\* A command ends; when it broke the session the same caller closes it.
EndExecute(h) ==
    /\ job[h] = "execute"
    /\ \E next \in {"none", "disconnect"} : job' = [job EXCEPT ![h] = next]
    /\ UNCHANGED <<open, session, stray>>

StartDisconnect(h) ==
    /\ job[h] = "none" /\ open[h]
    /\ job' = [job EXCEPT ![h] = "disconnect"]
    /\ UNCHANGED <<open, session, stray>>

Disconnected(h) ==
    /\ job[h] = "disconnect"
    /\ job' = [job EXCEPT ![h] = "none"]
    /\ open' = [open EXCEPT ![h] = FALSE]
    /\ UNCHANGED <<session, stray>>

Abandon(h) ==
    /\ job[h] = "disconnect" /\ stray[h] = "none"
    /\ job' = [job EXCEPT ![h] = "none"]
    /\ open' = [open EXCEPT ![h] = FALSE]
    /\ stray' = [stray EXCEPT ![h] = "running"]
    /\ UNCHANGED session

StrayEnds(h) ==
    /\ stray[h] = "running"
    /\ stray' = [stray EXCEPT ![h] = "ended"]
    /\ UNCHANGED <<job, open, session>>

Next ==
    \E h \in Hosts :
        \/ StartConnect(h) \/ Connected(h) \/ ConnectFailed(h)
        \/ StartExecute(h) \/ EndExecute(h)
        \/ StartDisconnect(h) \/ Disconnected(h)
        \/ Abandon(h) \/ StrayEnds(h)

Spec == Init /\ [][Next]_vars
=============================================================================
