---------------------------- MODULE MCEventMirror ----------------------------
(* EventMirror on small numbers of users, tickets and posts.               *)
EXTENDS EventMirror
=============================================================================
