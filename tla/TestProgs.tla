------------------------------ MODULE TestProgs ------------------------------
(***************************************************************************)
(* The programs that the traces run as jobs (src/Lab4/testprogs), each as  *)
(* the sequence of what it does that the shell or runtrace notices: send   *)
(* and recv on the synchronizing socket, a signal to itself or to its      *)
(* parent (the shell), output, a sleep long enough for the shell to handle *)
(* that signal, or spinning until it is killed.  A program that comes to   *)
(* its end exits.                                                          *)
(*                                                                         *)
(* The alarm of JOB_TIMEOUT seconds that all of them set is left out: it   *)
(* is longer than DRIVER_TIMEOUT, and ends the programs of a run that      *)
(* runtrace has given up already.                                          *)
(***************************************************************************)
EXTENDS Sequences

Handshake == <<"send", "recv">>
\* kill(getpid(), ...) and kill(getppid(), ...).
ToSelf == [int |-> "INT", tstp |-> "TSTP"]
ToShell == [int_shell |-> "INT", tstp_shell |-> "TSTP"]

myspin1 == Handshake
myspin2 == Handshake
\* The group of mysplit and its child, which does the handshake.
mysplit == Handshake
mysplitp == <<"tstp">>
mysigfun == Handshake
myints == <<"int">> \o <<"spin">>
mytstps == <<"tstp">>
myintp == <<"int_shell">> \o <<"spin">>
mytstpp == <<"tstp_shell">> \o <<"spin">>
mysleepnprint == <<"tstp_shell">> \o <<"sleep">> \o <<"print">>
mytstpandspin == <<"tstp_shell">> \o Handshake
myspinandtstps == Handshake \o <<"tstp">> \o <<"spin">>
mycat == <<"print">>
\* /bin/echo, and the pipeline that prints the state of mysplit.
echo == <<"print">>
ps == <<"ps">>

Program == [
    myspin1 |-> myspin1, myspin2 |-> myspin2, mysplit |-> mysplit, mysplitp |-> mysplitp,
    mysigfun |-> mysigfun, myints |-> myints, mytstps |-> mytstps, myintp |-> myintp,
    mytstpp |-> mytstpp, mysleepnprint |-> mysleepnprint, mytstpandspin |-> mytstpandspin,
    myspinandtstps |-> myspinandtstps, mycat |-> mycat,
    echo |-> echo, ps |-> ps]

\* What a signal does to a running program: myspin2 blocks both, mysigfun stops
\* on SIGINT and quits on SIGTSTP.
Disposition(prog, s) ==
    CASE prog = "myspin2"  -> "run"
      [] prog = "mysigfun" -> IF s = "INT" THEN "stopped" ELSE "QUIT"
      [] OTHER             -> IF s = "INT" THEN "INT" ELSE "stopped"
=============================================================================
