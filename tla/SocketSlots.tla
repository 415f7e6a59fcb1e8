----------------------------- MODULE SocketSlots -----------------------------
(***************************************************************************)
(* The process-wide descriptor registry of src/net/socket.c: one slot per  *)
(* descriptor number with a generation, an active flag and the generation  *)
(* of the one pending request.  The kernel is the table file: the socket   *)
(* that a descriptor number names now, 0 when it is closed.  Sockets are   *)
(* numbered in the order in which they are created, so that two sockets    *)
(* which share a number in turn can be told apart.                         *)
(***************************************************************************)
EXTENDS Integers

CONSTANTS Fds,          \* descriptor numbers
          GenMax,       \* UINT64_MAX
          MaxSockets    \* bound on the sockets ever created

VARIABLES file, serial,             \* kernel
          gen, active, pending,     \* slots
          opened,                   \* descriptors created and not yet tracked
          owned                     \* tracked descriptors the program holds

kernelVars == <<file, serial>>
slotVars == <<gen, active, pending>>
socketVars == <<file, serial, gen, active, pending, opened, owned>>

SocketInit ==
    /\ file = [f \in Fds |-> 0] /\ serial = 0
    /\ gen = [f \in Fds |-> 0]
    /\ active = [f \in Fds |-> FALSE]
    /\ pending = [f \in Fds |-> 0]
    /\ opened = {} /\ owned = {}

SocketOK ==
    /\ file \in [Fds -> 0..MaxSockets] /\ serial \in 0..MaxSockets
    /\ gen \in [Fds -> 0..GenMax]
    /\ active \in [Fds -> BOOLEAN]
    /\ pending \in [Fds -> 0..GenMax]
    /\ opened \subseteq Fds /\ owned \subseteq Fds

\* socket() or accept4(): a new socket on a descriptor number not in use.
NewFile(f) ==
    /\ file[f] = 0 /\ serial < MaxSockets
    /\ serial' = serial + 1
    /\ file' = [file EXCEPT ![f] = serial + 1]

\* vl_socket_track refuses an active slot and one out of generations.
Trackable(f) == ~active[f] /\ gen[f] # GenMax

Tracked(f) ==
    /\ gen' = [gen EXCEPT ![f] = @ + 1]
    /\ active' = [active EXCEPT ![f] = TRUE]

\* A slot is refused for ever once its generation is used up.
NextGen(g) == IF g = GenMax THEN g ELSE g + 1

\* vl_socket_close: close and retire the generation, in one locked section.
Closed(f) ==
    /\ active[f]
    /\ file' = [file EXCEPT ![f] = 0]
    /\ active' = [active EXCEPT ![f] = FALSE]
    /\ gen' = [gen EXCEPT ![f] = NextGen(@)]

Claimable(f, g) == active[f] /\ gen[f] = g /\ pending[f] = 0

Claim(f, g) == pending' = [pending EXCEPT ![f] = g]

\* vl_socket_release: only the holder of the claim clears it.
Release(f, g) ==
    pending' = [pending EXCEPT ![f] = IF @ = g THEN 0 ELSE @]

\* vl_socket_request_is_stale.
IsStale(f, g) == ~active[f] \/ gen[f] # g

-----------------------------------------------------------------------------
(* The program creates sockets; tracking is a second, locked step.         *)

Open(f) ==
    /\ NewFile(f)
    /\ opened' = opened \cup {f}
    /\ UNCHANGED <<slotVars, owned>>

Track(f) ==
    /\ f \in opened /\ Trackable(f)
    /\ Tracked(f)
    /\ opened' = opened \ {f} /\ owned' = owned \cup {f}
    /\ UNCHANGED <<kernelVars, pending>>

TrackFails(f) ==
    /\ f \in opened /\ ~Trackable(f)
    /\ file' = [file EXCEPT ![f] = 0]
    /\ opened' = opened \ {f}
    /\ UNCHANGED <<serial, slotVars, owned>>

=============================================================================
