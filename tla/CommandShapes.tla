----------------------------- MODULE CommandShapes -----------------------------
(***************************************************************************)
(* What the modules of commands (VdbRelational, VserverCommands, ...) say  *)
(* of one command of grn: the steps its RunE takes, in the order of the    *)
(* code, and what the request it sends carries.  RemoteCommands gives the  *)
(* steps their meaning.                                                    *)
(*                                                                         *)
(*   check       flags are parsed and validated; a refusal ends it         *)
(*   dryCheck    a check that only a dry run makes                         *)
(*   client      configuration, token provider and endpoint are resolved   *)
(*   tryClient   the same, but a failure is not reported                   *)
(*   read        the resource is fetched; a failure ends the command       *)
(*   look        the resource is fetched to be shown; a failure does not   *)
(*   derive      a check against what was fetched                          *)
(*   dryRun      with --dry-run the command ends here                      *)
(*   confirm     the prompt that --force skips                             *)
(*   warn        the status is fetched, and one that is not ACTIVE reported*)
(*   send        the request that has the effect, by internal/client, which*)
(*               repeats a request that got no answer or a 5xx             *)
(*   sendOnce    the same by internal/agentbase/client, which does not     *)
(*   readBack    the changed resource is fetched again to be printed       *)
(*   save        a local file is written; a failure ends the command       *)
(*   trySave     the same, but a failure is a warning                      *)
(***************************************************************************)
EXTENDS Sequences, Naturals

(* Two of the fields of a resource that the flags of a command can name.   *)
Fields == {"first", "other"}

Sends == {"send", "sendOnce"}

Kinds == {"check", "dryCheck", "client", "tryClient", "read", "look", "derive", "dryRun",
          "confirm", "warn", "readBack", "save", "trySave"} \cup Sends

(* resent: fields the request carries as they were read when no flag names *)
(* them; emptied: fields it then carries without a value; replaces: its    *)
(* help says that it replaces what was there; nulled: fields it then       *)
(* carries as null; deferred: the API may answer 202 and do nothing.       *)
Command(verb, steps) ==
    [verb |-> verb, steps |-> steps, resent |-> {}, emptied |-> {}, replaces |-> FALSE,
     nulled |-> {}, deferred |-> FALSE]

Reading(steps)   == Command("read", steps)
Creating(steps)  == Command("create", steps)
Updating(steps)  == Command("update", steps)    \* sends only what the flags name
Acting(steps)    == Command("act", steps)       \* start, reboot, attach, ...
Detaching(steps) == Command("detach", steps)    \* an HTTP DELETE of an attachment
Deleting(steps)  == Command("delete", steps)

Resending(fields, c) == [c EXCEPT !.resent = fields]
Replacing(c)         == [c EXCEPT !.emptied = Fields, !.replaces = TRUE]
Nulling(fields, c)   == [c EXCEPT !.nulled = fields]
Deferred(c)          == [c EXCEPT !.deferred = TRUE]

(* The sequences of steps that most commands share. *)
ReadOnly      == <<"check", "client", "read">>
Suggestions   == <<"tryClient", "look">>          \* shell completion
Unprompted    == <<"check", "client", "send">>
Previewed     == <<"check", "dryRun", "client", "send">>
CheckedDry    == <<"check", "dryCheck", "dryRun", "client", "send">>
CheckedTwice  == <<"check", "dryCheck", "dryRun", "client", "check", "send">>
FromFlags     == <<"check", "dryRun", "confirm", "client", "send">>
WarnedFlags   == <<"check", "dryRun", "confirm", "client", "warn", "send">>
FromRead      == <<"check", "client", "read", "derive", "dryRun", "confirm", "send">>
WarnedRead    == <<"check", "client", "read", "derive", "dryRun", "confirm", "warn", "send">>
Asking        == <<"check", "client", "dryRun", "confirm", "send">>
Showing       == <<"check", "client", "look", "dryRun", "confirm", "send">>
Fetching      == <<"check", "client", "read", "dryRun", "confirm", "send">>
SendingOnce   == <<"check", "client", "sendOnce">>
PreviewedOnce == <<"check", "client", "read", "look", "dryRun", "confirm", "sendOnce">>

Steps(c, kind)     == {i \in DOMAIN c.steps : c.steps[i] = kind}
Requests(c)        == {i \in DOMAIN c.steps : c.steps[i] \in Sends}
Has(c, kind)       == Steps(c, kind) # {}
Before(c, i, kind) == \E j \in Steps(c, kind) : j < i

(* What the code takes care of when it puts the steps of a command in      *)
(* order.                                                                  *)
WellFormed(c) ==
    /\ c.verb \in {"read", "create", "update", "act", "detach", "delete"}
    /\ c.steps \in Seq(Kinds) /\ c.steps # <<>>
    /\ c.resent \subseteq Fields /\ c.emptied \subseteq Fields /\ c.nulled \subseteq Fields
    /\ c.deferred \in BOOLEAN /\ c.replaces \in BOOLEAN
    /\ c.emptied # {} => c.replaces
    /\ c.verb = "read" => Requests(c) = {}
    /\ \A i, j \in Requests(c) : i = j
    /\ \A i \in Requests(c) :
        /\ \A j \in Steps(c, "confirm") \cup Steps(c, "warn") : j < i
        /\ Has(c, "dryRun") => Before(c, i, "dryRun")
        /\ c.verb = "delete" /\ c.steps[i] = "send" => Has(c, "confirm")
        /\ c.resent # {} => Before(c, i, "read")
        /\ c.deferred => Has(c, "warn")

(* The steps that can refuse what the user asks for.                       *)
Refusals(c) == Steps(c, "check") \cup Steps(c, "dryCheck") \cup Steps(c, "derive")

(* All of them come before the dry run ends the command.                   *)
Predictable(c) == \A i \in Steps(c, "dryRun"), j \in Refusals(c) : j < i
===============================================================================
