-------------------------- MODULE AtomicCredentials --------------------------
(***************************************************************************)
(* What the credentials file promises to one user at a time: it changes by *)
(* one whole edit of one profile, made to its current content.             *)
(***************************************************************************)
EXTENDS CredentialStore

VARIABLE store

AtomicInit == store \in Files

Set(p, s) == store' = [store EXCEPT ![p] = s]

AtomicNext ==
    \E p \in Profiles :
        \/ \E id, secret \in KeyIds \cup {None} : Set(p, WriteCredentials(store[p], id, secret))
        \/ \E t \in RefreshTokens, e \in IamEnvs : Set(p, WriteLoginToken(store[p], t, e))
        \/ Set(p, ClearLoginToken(store[p]))
        \/ \E a \in Agents \cup {None} : Set(p, WriteAgentIdentity(store[p], a))
        \/ \E e \in IamEnvs : Set(p, WriteIamEnv(store[p], e))

AtomicSpec == AtomicInit /\ [][AtomicNext]_store
===============================================================================
