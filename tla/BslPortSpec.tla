---------------------------- MODULE BslPortSpec ----------------------------
(***************************************************************************)
(* What a client of the library may think of the settings of the ports:    *)
(* each call takes effect on its port at one moment.  setPortMode sets the *)
(* mode and switches the latency checks off, since both live in PMSR and   *)
(* the code writes the whole register.                                     *)
(***************************************************************************)
CONSTANTS Ports, Calls
VARIABLE settings  \* settings[p]: what port p has been told

NoSettings ==
  [mode |-> {}, checks |-> {}, active |-> {}, command |-> {}, identity |-> <<{}, {}, {}>>]

Init == settings = [p \in Ports |-> NoSettings]

After(s, r) ==
  CASE r.op = "mode"    -> [s EXCEPT !.mode = r.val, !.checks = {}]
    [] r.op = "latency" -> [s EXCEPT !.checks = r.val]
    [] r.op = "active"  -> [s EXCEPT !.active = r.val]
    [] r.op = "command" -> [s EXCEPT !.command = r.val]
    [] r.op = "network" -> [s EXCEPT !.identity = r.val]

Do(r) == settings' = [settings EXCEPT ![r.port] = After(@, r)]

Spec == Init /\ [][\E r \in Calls : Do(r)]_settings
=============================================================================
