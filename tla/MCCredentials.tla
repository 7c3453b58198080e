---------------------------- MODULE MCCredentials ----------------------------
(* Instances of CredentialSessions for TLC. *)
EXTENDS CredentialSessions, TLC

CONSTANTS t1, t2

MCFirstToken == CHOOSE f \in [Profiles -> {t1, t2}] :
                    \A p, q \in Profiles : f[p] = f[q] => p = q

(* Environments of an invocation: with all, some or none of the variables. *)
AnyShell == {{}, {"id"}, ShellVars}
NoShell  == {{}}

Symmetry == Permutations(Invocations)
===============================================================================
