---------------------------- MODULE ConfigRegister ----------------------------
(***************************************************************************)
(* What changing the configuration promises.  The file that the next start *)
(* reads changes as a whole, only to a candidate that was offered and not  *)
(* withdrawn, and only to a higher revision - unless another program       *)
(* writes it, which the gateway notices when it next reads it.             *)
(***************************************************************************)
EXTENDS Integers

CONSTANTS Configs, Files, Garbled

VARIABLES
    content,   \* the configuration file
    offers,    \* the candidates that may become active
    edited     \* another program wrote the file and nobody has read it yet

registerVars == <<content, offers, edited>>

Offer(c) == /\ content \in Files /\ c.rev > content.cfg.rev
            /\ offers' \in SUBSET (offers \cup {c})
            /\ UNCHANGED <<content, edited>>

Withdraw == /\ offers' \in SUBSET offers
            /\ UNCHANGED <<content, edited>>

Switch(c) == /\ ~edited
             /\ c \in offers /\ c.rev > content.cfg.rev
             /\ content' = [cfg |-> c, canonical |-> TRUE]
             /\ offers' \in SUBSET offers
             /\ UNCHANGED edited

Edit == /\ edited' = TRUE
        /\ content' \in Files \cup {Garbled}
        /\ offers' \in SUBSET offers

\* A start or a reload reads the file.
Notice == /\ content \in Files
          /\ edited' = FALSE
          /\ offers' \in SUBSET offers
          /\ UNCHANGED content

RegisterInit == content \in Files /\ offers = {} /\ edited = FALSE

RegisterNext == \/ \E c \in Configs : Offer(c) \/ Switch(c)
                \/ Withdraw \/ Edit \/ Notice

Register == RegisterInit /\ [][RegisterNext]_registerVars
=============================================================================
