----------------------------- MODULE UploadLog -----------------------------
(***************************************************************************)
(* What a resumable upload promises its client, whatever PATCH requests    *)
(* are repeated, raced or cut off: the accepted bytes are a prefix of the  *)
(* file in the file's order, each accepted once, and an object is stored   *)
(* only from the complete file.                                            *)
(***************************************************************************)
EXTENDS Naturals, Sequences

CONSTANTS Uploads, Length

VARIABLES
    content,    \* for every accepted byte its position in the client's file
    opened,     \* the upload can be appended to
    stored      \* uploads whose object was stored

lvars == <<content, opened, stored>>

LInit ==
    /\ content = [u \in Uploads |-> <<>>] /\ opened = [u \in Uploads |-> FALSE]
    /\ stored = {}

Open(u) ==
    /\ ~opened[u] /\ opened' = [opened EXCEPT ![u] = TRUE]
    /\ UNCHANGED <<content, stored>>

(* The next n bytes of the file. *)
Accept(u, n) ==
    /\ opened[u] /\ Len(content[u]) + n <= Length
    /\ content' = [content EXCEPT ![u] = @ \o [i \in 1 .. n |-> Len(content[u]) + i]]
    /\ UNCHANGED <<opened, stored>>

Store(u) ==
    /\ opened[u] /\ Len(content[u]) = Length
    /\ stored' = stored \cup {u} /\ UNCHANGED <<content, opened>>

Close(u) ==
    /\ opened' = [opened EXCEPT ![u] = FALSE] /\ content' = [content EXCEPT ![u] = <<>>]
    /\ UNCHANGED stored

LNext == \E u \in Uploads : \/ Open(u) \/ Store(u) \/ Close(u)
                           \/ \E n \in 1 .. Length : Accept(u, n)

LSpec == LInit /\ [][LNext]_lvars
============================================================================
