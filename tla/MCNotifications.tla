-------------------------- MODULE MCNotifications --------------------------
(***************************************************************************)
(* Instances of Notifications for TLC: two users, one of whom reconnects,  *)
(* and a notification of every kind.                                       *)
(***************************************************************************)
EXTENDS Notifications, TLC

CONSTANTS u1, u2, c1, c2, c3

(* u1 has two sockets, u2 one. *)
Logins == c1 :> {u1} @@ c2 :> {u1} @@ c3 :> {u2}

MCDtos == {[channel |-> "email", user |-> u1], [channel |-> "user", user |-> u1],
           [channel |-> "sms", user |-> u1], [channel |-> "push", user |-> u1],
           [channel |-> "tenant", user |-> u2], [channel |-> "inApp", user |-> u2]}

OneLogin   == c1 :> {u1}
UserDtos == {[channel |-> "user", user |-> u1]}
=============================================================================
