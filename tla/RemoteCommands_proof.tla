------------------------- MODULE RemoteCommands_proof -------------------------
(***************************************************************************)
(* What RemoteCommands promises for every table of commands whose steps    *)
(* are in order (Tables), any number of changes by other users and any     *)
(* number of repeated requests.  The tables of this project are in order:  *)
(* TLC checks InOrder, with commands_in_order.cfg, over all of them.       *)
(***************************************************************************)
EXTENDS RemoteCommands, TLAPS

Tables == \A c \in Commands : WellFormed(c) /\ (c \in Unpredicted \/ Predictable(c))

(* Nothing has been sent before the command reaches its request.           *)
NothingSentYet ==
    (\A i \in Requests(cmd) : pc < i) => effects = 0 /\ ~dropped

(* Every application of a request but the last was one nobody heard of.    *)
Counted ==
    /\ effects <= resends + 1
    /\ exit = "running" /\ pc \in Requests(cmd) => effects <= resends

(* A command that has passed its checks has none of their flaws.           *)
Checked ==
    /\ flaw # 0 => flaw \in Refusals(cmd)
    /\ \A i \in Refusals(cmd) : i < pc /\ dry => flaw # i
    /\ exit = "previewed" => dry /\ pc \in Steps(cmd, "dryRun")

(* Only a real run gets past the dry run. *)
NotDry ==
    /\ dry => Has(cmd, "dryRun")
    /\ \A i \in Steps(cmd, "dryRun") : i < pc => ~dry

(* Only consent gets past the prompt; a no ends the command with nothing   *)
(* sent.                                                                   *)
Consented ==
    /\ \A i \in Steps(cmd, "confirm") :
        i < pc => force \/ answer = "yes" \/ exit = "declined"
    /\ answer = "no" => exit = "declined"
    /\ exit = "declined" => effects = 0 /\ ~dropped

(* The status is looked at before the request, and what it says is so.     *)
Warned ==
    /\ \A i \in Steps(cmd, "warn") : i < pc => status # "unread"
    /\ status = "ACTIVE" => active
    /\ DropsAreWarned

(* A field that no flag names and that nobody has changed since the fetch  *)
(* is as it was fetched.                                                   *)
Known ==
    /\ \A i \in Steps(cmd, "read") : i < pc => fetched
    /\ fetched /\ ~cmd.replaces =>
        \A f \in Fields \ (named \cup since \cup cmd.nulled) : seen[f] = resource[f]

IInv ==
    /\ TypeOK /\ NothingSentYet /\ Counted /\ Checked /\ NotDry
    /\ Consented /\ Warned /\ Known

-------------------------------------------------------------------------------
(* A command in order is a sequence of known steps. *)
LEMMA CommandFacts ==
    ASSUME Tables, TypeOK
    PROVE  /\ WellFormed(cmd)
           /\ Len(cmd.steps) \in Nat /\ Len(cmd.steps) >= 1
           /\ DOMAIN cmd.steps = 1 .. Len(cmd.steps)
           /\ pc \in Nat /\ pc >= 1
           /\ exit = "running" => pc \in DOMAIN cmd.steps
  <1>1. WellFormed(cmd)
    BY DEF Tables, TypeOK
  <1>2. cmd.steps \in Seq(Kinds) /\ cmd.steps # <<>>
    BY <1>1 DEF WellFormed
  <1>3. Len(cmd.steps) \in Nat /\ Len(cmd.steps) >= 1 /\ DOMAIN cmd.steps = 1 .. Len(cmd.steps)
    BY <1>2
  <1> QED
    BY <1>1, <1>3 DEF TypeOK

(* The initial states satisfy the invariant. *)
LEMMA Initially == ASSUME Tables, Init PROVE IInv
  <1> USE BoundsAssumption
  <1>1. WellFormed(cmd) /\ cmd.steps \in Seq(Kinds) /\ cmd.steps # <<>>
    BY DEF Tables, Init, WellFormed
  <1>2. Len(cmd.steps) \in Nat /\ Len(cmd.steps) >= 1 /\ DOMAIN cmd.steps = 1 .. Len(cmd.steps)
    BY <1>1
  <1>3. TypeOK
    <2>1. /\ cmd \in Commands /\ pc \in 1 .. Len(cmd.steps) + 1
          /\ exit = "running" => pc <= Len(cmd.steps)
          /\ exit \in {"running", "ok", "refused", "previewed", "declined", "failed"}
      BY <1>2 DEF Init
    <2>2. /\ dry \in BOOLEAN /\ force \in BOOLEAN /\ active \in BOOLEAN
          /\ named \subseteq Fields
      BY DEF Init
    <2>6. flaw \in 0 .. Len(cmd.steps)
      <3>1. \A i \in Refusals(cmd) : i \in DOMAIN cmd.steps
        BY DEF Refusals, Steps
      <3>2. flaw \in {0} \cup Refusals(cmd)
        BY DEF Init
      <3> QED
        BY <1>2, <3>1, <3>2
    <2>3. resource \in [Fields -> Writers] /\ seen \in [Fields -> Writers]
      BY DEF Init, Writers
    <2>4. changes \in 0 .. MaxChanges /\ resends \in 0 .. MaxResends /\ effects \in 0 .. MaxResends + 1
      BY DEF Init
    <2>5. /\ fetched \in BOOLEAN /\ since \subseteq Fields /\ dropped \in BOOLEAN
          /\ answer \in {"none", "yes", "no"}
          /\ status \in {"unread", "failed", "ACTIVE", "other", "stale"}
      BY DEF Init
    <2> QED
      BY <1>1, <2>1, <2>2, <2>3, <2>4, <2>5, <2>6 DEF TypeOK
  <1>4. \A kind : \A i \in Steps(cmd, kind) : ~(i < pc)
    BY <1>2 DEF Init, Steps
  <1>5. NothingSentYet /\ Counted
    BY DEF Init, NothingSentYet, Counted
  <1>9. NotDry
    <2>1. dry => Has(cmd, "dryRun")
      BY DEF Init
    <2> QED
      BY <2>1, <1>4, Zenon DEF NotDry
  <1>10. Consented
    BY <1>4 DEF Init, Consented
  <1>6. flaw # 0 => flaw \in Refusals(cmd)
    BY DEF Init
  <1>7. Checked
    BY <1>4, <1>6 DEF Init, Checked, Refusals
  <1>8. Warned /\ Known
    BY <1>4 DEF Init, Warned, Known, DropsAreWarned
  <1> QED
    BY <1>3, <1>5, <1>7, <1>8, <1>9, <1>10 DEF IInv

(* No action changes the input, and the program counter moves by one step, *)
(* or not at all.                                                          *)
LEMMA Moves ==
    ASSUME Tables, TypeOK, Next
    PROVE  /\ UNCHANGED input
           /\ pc' = pc \/ (exit = "running" /\ pc' = pc + 1)
           /\ exit # "running" => UNCHANGED vars
  BY Zenon DEF Next, Step, Send, Check, DryCheck, BuildClient, TryClient, Read, Look,
         Derive, DryRun, Confirm, Warn, SendSucceeds, SendDropped, SendUnanswered,
         SendRefused, ReadBack, Save, OthersChange, Exited, At, Sending, Advance, End,
         Fetch, vars

(* Types, and the bounds of the counters. *)
LEMMA TypeStep == ASSUME Tables, IInv, Next PROVE TypeOK'
  <1> USE BoundsAssumption
  <1>1. TypeOK /\ Counted
    BY DEF IInv
  <1>2. /\ Len(cmd.steps) \in Nat /\ pc \in Nat /\ pc >= 1
        /\ exit = "running" => pc <= Len(cmd.steps)
    BY <1>1, CommandFacts DEF TypeOK
  <1>3. UNCHANGED input
    BY <1>1, Moves
  <1>4. cmd' \in Commands /\ dry' \in BOOLEAN /\ force' \in BOOLEAN /\ named' \subseteq Fields
        /\ flaw' \in 0 .. Len(cmd.steps) /\ cmd' = cmd
    BY <1>1, <1>3 DEF TypeOK, input
  <1>5. /\ pc' \in 1 .. Len(cmd.steps) + 1
        /\ exit' \in {"running", "ok", "refused", "previewed", "declined", "failed"}
        /\ exit' = "running" => pc' <= Len(cmd.steps)
    <2>1. \/ pc' = pc /\ exit' = exit
          \/ pc' = pc /\ exit' \in {"ok", "refused", "previewed", "declined", "failed"}
          \/ exit = "running" /\ Advance
      BY DEF Next, Step, Send, Check, DryCheck, BuildClient, TryClient, Read,
             Look, Derive, DryRun, Confirm, Warn, SendSucceeds, SendDropped, SendUnanswered,
             SendRefused, ReadBack, Save, OthersChange, Exited, At, Sending, End, vars
    <2> QED
      BY <1>1, <1>2, <2>1 DEF Advance, TypeOK
  <1>6. /\ resource' \in [Fields -> Writers] /\ seen' \in [Fields -> Writers]
        /\ fetched' \in BOOLEAN /\ since' \subseteq Fields /\ active' \in BOOLEAN
    <2>1. CASE UNCHANGED <<resource, seen, fetched, since, active>>
      BY <1>1, <2>1 DEF TypeOK
    <2>2. CASE Read /\ Fetch
      BY <1>1, <2>2 DEF TypeOK, Read, Fetch
    <2>3. CASE OthersChange
      BY <1>1, <2>3, Zenon DEF TypeOK, OthersChange, knowledge, Writers
    <2>4. CASE Applied /\ UNCHANGED <<seen, fetched, since, active>>
      <3>1. \A f \in Fields : Sent(f) \in Writers
        BY <1>1 DEF TypeOK, Sent, Writers
      <3> QED
        BY <1>1, <2>4, <3>1 DEF TypeOK, Applied
    <2> QED
      BY <2>1, <2>2, <2>3, <2>4, Zenon DEF Next, Step, Send, Check, DryCheck, BuildClient, TryClient, Read,
             Look, Derive, DryRun, Confirm, Warn, SendSucceeds, SendDropped, SendUnanswered,
             SendRefused, ReadBack, Save, OthersChange, Exited, At, Sending, vars,
             service, knowledge, outcome
  <1>7. /\ changes' \in 0 .. MaxChanges /\ resends' \in 0 .. MaxResends
        /\ effects' \in 0 .. MaxResends + 1 /\ dropped' \in BOOLEAN
    <2>1. CASE UNCHANGED <<changes, outcome>>
      BY <1>1, <2>1 DEF TypeOK, outcome
    <2>2. CASE OthersChange
      BY <1>1, <2>2 DEF TypeOK, OthersChange, outcome
    <2>3. CASE Send
      <3>1. exit = "running" /\ pc \in Requests(cmd)
        BY <1>1, <2>3, CommandFacts DEF Send, SendSucceeds, SendDropped, SendUnanswered,
                   SendRefused, Sending, Requests
      <3>2. effects <= resends
        BY <1>1, <3>1 DEF Counted
      <3>3. /\ effects' \in {effects, effects + 1} /\ changes' = changes
            /\ resends' = resends \/ (resends < MaxResends /\ resends' = resends + 1)
            /\ dropped' \in {dropped, TRUE}
        BY <2>3 DEF Send, SendSucceeds, SendDropped, SendUnanswered,
                   SendRefused, MayResend, Applied, service, outcome
      <3>4. /\ effects \in Nat /\ resends \in 0 .. MaxResends /\ changes \in 0 .. MaxChanges
            /\ effects \in 0 .. MaxResends + 1 /\ dropped \in BOOLEAN
        BY <1>1 DEF TypeOK
      <3>5. resends' \in 0 .. MaxResends /\ effects' \in 0 .. MaxResends + 1
        BY <3>2, <3>3, <3>4
      <3> QED
        BY <3>3, <3>4, <3>5
    <2> QED
      BY <2>1, <2>2, <2>3, Zenon DEF Next, Step, Check, DryCheck, BuildClient,
             TryClient, Read, Look, Derive, DryRun, Confirm, Warn, ReadBack, Save, Exited,
             vars, service, outcome
  <1>8. /\ answer' \in {"none", "yes", "no"}
        /\ status' \in {"unread", "failed", "ACTIVE", "other", "stale"}
    <2>1. answer' = answer \/ answer' \in {"yes", "no"}
      BY DEF Next, Step, Send, Check, DryCheck, BuildClient, TryClient, Read, Look,
             Derive, DryRun, Confirm, Warn, SendSucceeds, SendDropped, SendUnanswered,
             SendRefused, ReadBack, Save, OthersChange, Exited, At, Sending, vars
    <2>2. status' = status \/ status' \in {"failed", "stale", "ACTIVE", "other"}
      BY DEF Next, Step, Send, Check, DryCheck, BuildClient, TryClient, Read,
             Look, Derive, DryRun, Confirm, Warn, SendSucceeds, SendDropped, SendUnanswered,
             SendRefused, ReadBack, Save, OthersChange, Exited, At, Sending, vars
    <2> QED
      BY <1>1, <2>1, <2>2 DEF TypeOK
  <1> QED
    BY <1>4, <1>5, <1>6, <1>7, <1>8 DEF TypeOK

-------------------------------------------------------------------------------
(* What a step that is no request leaves alone, and what one may change.   *)
LEMMA Quiet ==
    ASSUME Tables, TypeOK, Next, ~Send
    PROVE  UNCHANGED outcome
  BY Zenon DEF Next, Step, Check, DryCheck, BuildClient, TryClient, Read, Look,
         Derive, DryRun, Confirm, Warn, ReadBack, Save, OthersChange, Exited, vars

LEMMA Request ==
    ASSUME Tables, TypeOK, Send
    PROVE  /\ exit = "running" /\ pc \in Requests(cmd)
           /\ UNCHANGED <<input, knowledge, since, active, answer, status>>
           /\ \/ UNCHANGED <<resource, effects>>
              \/ Applied
           /\ dropped' = dropped \/ (cmd.deferred /\ ~active)
           /\ \/ resends' = resends /\ (Advance \/ End("failed"))
              \/ resends' = resends + 1 /\ UNCHANGED <<pc, exit>>
  <1>1. exit = "running" /\ pc \in Requests(cmd)
    BY CommandFacts DEF Send, SendSucceeds, SendDropped, SendUnanswered, SendRefused,
               Sending, Requests
  <1>2. UNCHANGED <<input, knowledge, since, active, answer, status>>
    BY Zenon DEF Send, SendSucceeds, SendDropped, SendUnanswered, SendRefused, service
  <1>3. \/ UNCHANGED <<resource, effects>>
        \/ Applied
    BY Zenon DEF Send, SendSucceeds, SendDropped, SendUnanswered, SendRefused, service, outcome
  <1>4. dropped' = dropped \/ (cmd.deferred /\ ~active)
    BY Zenon DEF Send, SendSucceeds, SendDropped, SendUnanswered, SendRefused, outcome
  <1>5. \/ resends' = resends /\ (Advance \/ End("failed"))
        \/ resends' = resends + 1 /\ UNCHANGED <<pc, exit>>
    BY Zenon DEF Send, SendSucceeds, SendDropped, SendUnanswered, SendRefused, outcome
  <1> QED
    BY <1>1, <1>2, <1>3, <1>4, <1>5

(* What is known once a command has passed a step.                         *)
LEMMA Passed ==
    ASSUME Tables, TypeOK, Next, pc' # pc
    PROVE  /\ cmd.steps[pc] \in {"check", "derive"} => flaw # pc
           /\ cmd.steps[pc] = "dryCheck" => ~(dry /\ flaw = pc)
           /\ cmd.steps[pc] = "dryRun" => ~dry
           /\ cmd.steps[pc] = "confirm" => force \/ answer' = "yes"
           /\ cmd.steps[pc] = "warn" => status' # "unread"
           /\ cmd.steps[pc] = "read" => fetched'
  BY DEF Next, Step, Check, DryCheck, BuildClient, TryClient, Read, Look,
         Derive, DryRun, Confirm, Warn, Send, SendSucceeds, SendDropped, SendUnanswered,
         SendRefused, ReadBack, Save, OthersChange, Exited, At, Sending, Sends, End, Fetch, vars

(* Where an invocation ends, and what its prompt was answered.             *)
LEMMA Endings ==
    ASSUME Tables, TypeOK, Next
    PROVE  /\ exit' = "previewed" => exit = "previewed" \/ (At("dryRun") /\ dry /\ pc' = pc)
           /\ exit' = "declined" => exit = "declined" \/ (At("confirm") /\ ~Send)
           /\ answer' = answer \/ answer' = "yes" \/ (answer' = "no" /\ exit' = "declined")
  <1>1. exit' = "previewed" => exit = "previewed" \/ (At("dryRun") /\ dry /\ pc' = pc)
    BY DEF Next, Step, Check, DryCheck, BuildClient, TryClient, Read, Look,
         Derive, DryRun, Confirm, Warn, Send, SendSucceeds, SendDropped, SendUnanswered,
         SendRefused, ReadBack, Save, OthersChange, Exited, Advance, End, vars
  <1>2. exit' = "declined" => exit = "declined" \/ At("confirm")
    BY DEF Next, Step, Check, DryCheck, BuildClient, TryClient, Read, Look,
         Derive, DryRun, Confirm, Warn, Send, SendSucceeds, SendDropped, SendUnanswered,
         SendRefused, ReadBack, Save, OthersChange, Exited, Advance, End, vars
  <1>3. At("confirm") => ~Send
    BY DEF At, Send, SendSucceeds, SendDropped, SendUnanswered, SendRefused, Sending, Sends
  <1>4. answer' = answer \/ answer' = "yes" \/ (answer' = "no" /\ exit' = "declined")
    BY DEF Next, Step, Check, DryCheck, BuildClient, TryClient, Read, Look,
         Derive, DryRun, Confirm, Warn, Send, SendSucceeds, SendDropped, SendUnanswered,
         SendRefused, ReadBack, Save, OthersChange, Exited, End, vars
  <1> QED
    BY <1>1, <1>2, <1>3, <1>4

(* As long as the request lies ahead nothing has been sent.                *)
LEMMA Ahead ==
    ASSUME Tables, IInv, exit = "running",
           cmd.steps[pc] \in {"confirm", "warn"}
    PROVE  effects = 0 /\ ~dropped
  <1>1. TypeOK /\ NothingSentYet
    BY DEF IInv
  <1>2. WellFormed(cmd) /\ pc \in DOMAIN cmd.steps
    BY <1>1, CommandFacts
  <1>3. pc \in Steps(cmd, "confirm") \cup Steps(cmd, "warn")
    BY <1>2 DEF Steps
  <1>4. \A i \in Requests(cmd) : pc < i
    BY <1>2, <1>3 DEF WellFormed
  <1> QED
    BY <1>1, <1>4 DEF NothingSentYet

-------------------------------------------------------------------------------
(* Every step preserves every part of the invariant. *)
LEMMA NothingSentYetStep == ASSUME Tables, IInv, Next PROVE NothingSentYet'
  <1>1. TypeOK /\ NothingSentYet
    BY DEF IInv
  <1>2. pc \in Nat /\ cmd' = cmd /\ (pc' = pc \/ pc' = pc + 1)
    BY <1>1, CommandFacts, Moves DEF input
  <1>3. \A i \in Requests(cmd) : i \in Nat
    BY <1>1, CommandFacts DEF Requests
  <1>4. Requests(cmd') = Requests(cmd)
    BY <1>2
  <1>5. CASE Send
    <2>1. pc \in Requests(cmd) /\ ~(pc' < pc)
      BY <1>1, <1>2, <1>5, Request
    <2> QED
      BY <1>4, <2>1 DEF NothingSentYet
  <1>6. CASE ~Send
    <2>1. effects' = effects /\ dropped' = dropped
      BY <1>1, <1>6, Quiet DEF outcome
    <2>2. (\A i \in Requests(cmd) : pc' < i) => \A i \in Requests(cmd) : pc < i
      BY <1>2, <1>3
    <2> QED
      BY <1>1, <1>4, <2>1, <2>2 DEF NothingSentYet
  <1> QED
    BY <1>5, <1>6

LEMMA CountedStep == ASSUME Tables, IInv, Next PROVE Counted'
  <1>1. TypeOK /\ NothingSentYet /\ Counted
    BY DEF IInv
  <1>2. pc \in Nat /\ cmd' = cmd /\ (pc' = pc \/ pc' = pc + 1) /\ resends \in Nat /\ effects \in Nat
    BY <1>1, CommandFacts, Moves, BoundsAssumption DEF input, TypeOK
  <1>3. Requests(cmd') = Requests(cmd)
    BY <1>2
  <1>4. \A i, j \in Requests(cmd) : i = j
    BY <1>1, CommandFacts DEF WellFormed
  <1>5. CASE Send
    <2>1. exit = "running" /\ pc \in Requests(cmd) /\ effects <= resends
      BY <1>1, <1>5, Request DEF Counted
    <2>2. effects' = effects \/ effects' = effects + 1
      BY <1>1, <1>5, Request DEF Applied
    <2>3. CASE resends' = resends /\ Advance
      <3>1. pc' \notin Requests(cmd)
        BY <1>2, <1>4, <2>1, <2>3 DEF Advance
      <3> QED
        BY <1>2, <1>3, <2>1, <2>2, <2>3, <3>1 DEF Counted
    <2>4. CASE resends' = resends /\ End("failed")
      BY <1>2, <2>1, <2>2, <2>4 DEF Counted, End
    <2>5. CASE resends' = resends + 1
      BY <1>2, <2>1, <2>2, <2>5 DEF Counted
    <2> QED
      BY <1>1, <1>5, <2>3, <2>4, <2>5, Request
  <1>6. CASE ~Send
    <2>1. effects' = effects /\ resends' = resends
      BY <1>1, <1>6, Quiet DEF outcome
    <2>2. effects <= resends + 1
      BY <1>1 DEF Counted
    <2>3. ASSUME exit' = "running", pc' \in Requests(cmd) PROVE effects <= resends
      <3>1. exit = "running"
        BY <1>1, <2>3, Moves DEF vars
      <3>2. CASE pc' = pc
        BY <1>1, <2>3, <3>1, <3>2 DEF Counted
      <3>3. CASE pc' = pc + 1
        <4>1. \A i \in Requests(cmd) : pc < i
          BY <1>2, <1>4, <2>3, <3>3
        <4> QED
          BY <1>1, <1>2, <4>1 DEF NothingSentYet
      <3> QED
        BY <1>2, <3>2, <3>3
    <2> QED
      BY <1>3, <2>1, <2>2, <2>3 DEF Counted
  <1> QED
    BY <1>5, <1>6

(* A step that is behind now was behind before or has just been passed.    *)
LEMMA Behind ==
    ASSUME Tables, TypeOK, Next, NEW kind, NEW i \in Steps(cmd', kind), i < pc'
    PROVE  /\ i \in Steps(cmd, kind)
           /\ i < pc \/ (pc' # pc /\ i = pc /\ cmd.steps[pc] = kind)
  <1>1. pc \in Nat /\ cmd' = cmd /\ (pc' = pc \/ pc' = pc + 1)
    BY CommandFacts, Moves DEF input
  <1>2. i \in Steps(cmd, kind) /\ i \in Nat
    BY <1>1, CommandFacts DEF Steps
  <1> QED
    BY <1>1, <1>2 DEF Steps

LEMMA CheckedStep == ASSUME Tables, IInv, Next PROVE Checked'
  <1>1. TypeOK /\ Checked
    BY DEF IInv
  <1>2. cmd' = cmd /\ flaw' = flaw /\ dry' = dry
    BY <1>1, Moves DEF input
  <1>3. flaw # 0 => flaw \in Refusals(cmd)
    BY <1>1 DEF Checked
  <1>4. ASSUME NEW kind \in {"check", "dryCheck", "derive"},
               NEW i \in Steps(cmd', kind), i < pc', dry
        PROVE  flaw # i
    <2>1. i \in Refusals(cmd)
      BY <1>1, <1>4, Behind DEF Refusals
    <2>2. CASE i < pc
      BY <1>1, <1>4, <2>1, <2>2 DEF Checked
    <2>3. CASE pc' # pc /\ i = pc /\ cmd.steps[pc] = kind
      BY <1>1, <1>4, <2>3, Passed
    <2> QED
      BY <1>1, <1>4, <2>2, <2>3, Behind
  <1>5. ASSUME NEW i \in Refusals(cmd'), i < pc', dry PROVE flaw # i
    BY <1>4, <1>5 DEF Refusals
  <1>6. ASSUME exit' = "previewed" PROVE dry /\ pc' \in Steps(cmd, "dryRun")
    <2>1. CASE exit = "previewed"
      <3>1. pc' = pc
        BY <1>1, <2>1, Moves
      <3> QED
        BY <1>1, <2>1, <3>1 DEF Checked
    <2>2. CASE At("dryRun") /\ dry /\ pc' = pc
      BY <1>1, <2>2, CommandFacts DEF At, Steps
    <2> QED
      BY <1>1, <1>6, <2>1, <2>2, Endings
  <1> QED
    BY <1>2, <1>3, <1>5, <1>6 DEF Checked

LEMMA NotDryStep == ASSUME Tables, IInv, Next PROVE NotDry'
  <1>1. TypeOK /\ NotDry
    BY DEF IInv
  <1>2. cmd' = cmd /\ dry' = dry
    BY <1>1, Moves DEF input
  <1>3. dry => Has(cmd, "dryRun")
    BY <1>1 DEF NotDry
  <1>4. ASSUME NEW i \in Steps(cmd', "dryRun"), i < pc' PROVE ~dry
    BY <1>1, <1>4, Behind, Passed DEF NotDry
  <1> QED
    BY <1>2, <1>3, <1>4 DEF NotDry

LEMMA ConsentedStep == ASSUME Tables, IInv, Next PROVE Consented'
  <1>1. TypeOK /\ Consented
    BY DEF IInv
  <1>2. cmd' = cmd /\ force' = force
    BY <1>1, Moves DEF input
  <1>3. ASSUME exit = "declined" PROVE UNCHANGED <<answer, exit, effects, dropped>>
    BY <1>1, <1>3, Moves DEF vars, outcome
  <1>4. ASSUME NEW i \in Steps(cmd', "confirm"), i < pc'
        PROVE  force \/ answer' = "yes" \/ exit' = "declined"
    <2>1. CASE i < pc
      <3>1. force \/ answer = "yes" \/ exit = "declined"
        BY <1>1, <1>4, <2>1, Behind DEF Consented
      <3> QED
        BY <1>1, <1>3, <3>1, Endings
    <2>2. CASE pc' # pc /\ cmd.steps[pc] = "confirm"
      BY <1>1, <2>2, Passed
    <2> QED
      BY <1>1, <1>4, <2>1, <2>2, Behind
  <1>5. answer' = "no" => exit' = "declined"
    BY <1>1, <1>3, Endings DEF Consented
  <1>6. ASSUME exit' = "declined" PROVE effects' = 0 /\ ~dropped'
    <2>1. CASE exit = "declined"
      BY <1>1, <1>3, <2>1 DEF Consented
    <2>2. CASE At("confirm") /\ ~Send
      <3>1. effects = 0 /\ ~dropped
        BY <2>2, Ahead DEF At
      <3> QED
        BY <1>1, <2>2, <3>1, Quiet DEF outcome
    <2> QED
      BY <1>1, <1>6, <2>1, <2>2, Endings
  <1> QED
    BY <1>2, <1>4, <1>5, <1>6 DEF Consented

LEMMA WarnedStep == ASSUME Tables, IInv, Next PROVE Warned'
  <1>1. TypeOK /\ Warned
    BY DEF IInv
  <1>2. cmd' = cmd
    BY <1>1, Moves DEF input
  <1>3. \/ status' = status /\ active' = active
        \/ /\ status' = (IF status = "unread" THEN status ELSE "stale")
           /\ UNCHANGED outcome
        \/ /\ At("warn") /\ active' = active /\ UNCHANGED outcome
           /\ status' \in {"failed", IF active THEN "ACTIVE" ELSE "other"}
    BY DEF Next, Step, Check, DryCheck, BuildClient, TryClient, Read, Look,
         Derive, DryRun, Confirm, Warn, Send, SendSucceeds, SendDropped, SendUnanswered,
         SendRefused, ReadBack, Save, OthersChange, Exited, service, vars
  <1>4. ASSUME NEW i \in Steps(cmd', "warn"), i < pc' PROVE status' # "unread"
    <2>1. CASE i < pc
      <3>1. status # "unread"
        BY <1>1, <1>4, <2>1, Behind DEF Warned
      <3> QED
        BY <1>3, <3>1
    <2>2. CASE pc' # pc /\ cmd.steps[pc] = "warn"
      BY <1>1, <2>2, Passed
    <2> QED
      BY <1>1, <1>4, <2>1, <2>2, Behind
  <1>5. status' = "ACTIVE" => active'
    BY <1>1, <1>3 DEF Warned
  <1>6. DropsAreWarned'
    <2>1. CASE Send
      <3>1. pc \in Requests(cmd) /\ status' = status /\ (dropped' = dropped \/ (cmd.deferred /\ ~active))
        BY <1>1, <2>1, Request
      <3>2. CASE dropped' = dropped
        BY <1>1, <3>1, <3>2 DEF Warned, DropsAreWarned
      <3>3. CASE cmd.deferred /\ ~active
        <4>1. WellFormed(cmd)
          BY <1>1, CommandFacts
        <4>2. Has(cmd, "warn") /\ \A j \in Steps(cmd, "warn") : j < pc
          BY <3>1, <3>3, <4>1 DEF WellFormed
        <4>3. status # "unread" /\ status # "ACTIVE"
          BY <1>1, <3>3, <4>2 DEF Warned, Has
        <4> QED
          BY <1>1, <3>1, <4>3 DEF TypeOK, DropsAreWarned
      <3> QED
        BY <3>1, <3>2, <3>3
    <2>2. CASE ~Send
      <3>1. dropped' = dropped
        BY <1>1, <2>2, Quiet DEF outcome
      <3>2. At("warn") => ~dropped
        BY Ahead DEF At
      <3> QED
        BY <1>1, <1>3, <3>1, <3>2 DEF Warned, DropsAreWarned
    <2> QED
      BY <2>1, <2>2
  <1> QED
    BY <1>2, <1>4, <1>5, <1>6 DEF Warned

LEMMA KnownStep == ASSUME Tables, IInv, Next PROVE Known'
  <1>1. TypeOK /\ Known
    BY DEF IInv
  <1>2. cmd' = cmd /\ named' = named
    BY <1>1, Moves DEF input
  <1>3. \/ UNCHANGED <<resource, seen, fetched, since>>
        \/ Fetch /\ UNCHANGED resource
        \/ /\ UNCHANGED <<seen, fetched>>
           /\ \E f \in Fields :
                /\ resource' = [resource EXCEPT ![f] = "others"]
                /\ since' = IF fetched THEN since \cup {f} ELSE since
        \/ Applied /\ UNCHANGED <<seen, fetched, since>>
    BY Zenon DEF Next, Step, Check, DryCheck, BuildClient, TryClient, Read, Look,
         Derive, DryRun, Confirm, Warn, Send, SendSucceeds, SendDropped, SendUnanswered,
         SendRefused, ReadBack, Save, OthersChange, Exited, service, knowledge, vars
  <1>4. fetched => fetched'
    BY <1>3 DEF Fetch
  <1>5. ASSUME NEW i \in Steps(cmd', "read"), i < pc' PROVE fetched'
    BY <1>1, <1>4, <1>5, Behind, Passed DEF Known
  <1>6. ASSUME fetched', ~cmd.replaces, NEW f \in Fields \ (named \cup since' \cup cmd.nulled)
        PROVE  seen'[f] = resource'[f]
    <2>1. CASE UNCHANGED <<resource, seen, fetched, since>>
      BY <1>1, <1>6, <2>1 DEF Known
    <2>2. CASE Fetch /\ UNCHANGED resource
      BY <2>2 DEF Fetch
    <2>3. ASSUME UNCHANGED <<seen, fetched>>, NEW g \in Fields,
                 resource' = [resource EXCEPT ![g] = "others"],
                 since' = IF fetched THEN since \cup {g} ELSE since
          PROVE  seen'[f] = resource'[f]
      <3>1. f # g /\ f \notin since /\ fetched
        BY <1>6, <2>3
      <3> QED
        BY <1>1, <1>6, <2>3, <3>1 DEF Known, TypeOK
    <2>4. CASE Applied /\ UNCHANGED <<seen, fetched, since>>
      <3>1. seen[f] = resource[f]
        BY <1>1, <1>6, <2>4 DEF Known
      <3>2. cmd.emptied = {}
        BY <1>1, <1>6, CommandFacts DEF WellFormed
      <3>3. Sent(f) = resource[f]
        BY <1>6, <2>4, <3>1, <3>2 DEF Sent
      <3> QED
        BY <1>6, <2>4, <3>1, <3>3 DEF Applied
    <2> QED
      BY <1>3, <2>1, <2>2, <2>3, <2>4
  <1> QED
    BY <1>2, <1>5, <1>6 DEF Known

LEMMA StepKeepsIInv == ASSUME Tables, IInv, [Next]_vars PROVE IInv'
  <1>1. CASE Next
    BY <1>1, TypeStep, NothingSentYetStep, CountedStep, CheckedStep, NotDryStep,
       ConsentedStep, WarnedStep, KnownStep DEF IInv
  <1>2. CASE UNCHANGED vars
    BY <1>2 DEF IInv, TypeOK, NothingSentYet, Counted, Checked, NotDry, Consented, Warned,
         Known, DropsAreWarned, vars, input, service, knowledge, outcome
  <1> QED
    BY <1>1, <1>2

-------------------------------------------------------------------------------
(* What the invariant says of the properties. *)
LEMMA Consent == ASSUME Tables, IInv PROVE SentWithConsent
  <1>1. /\ TypeOK /\ NothingSentYet /\ NotDry /\ Consented
        /\ WellFormed(cmd) /\ pc \in Nat /\ DOMAIN cmd.steps = 1 .. Len(cmd.steps)
    BY CommandFacts DEF IInv
  <1>2. SUFFICES ASSUME effects > 0 \/ dropped
                 PROVE  /\ ~dry /\ answer # "no"
                        /\ Has(cmd, "confirm") \/ (cmd.verb = "delete" /\ Has(cmd, "send")) =>
                             force \/ answer = "yes"
    BY DEF SentWithConsent
  <1>3. ~(effects = 0 /\ ~dropped)
    BY <1>1, <1>2 DEF TypeOK
  <1>4. PICK i \in Requests(cmd) : ~(pc < i)
    BY <1>1, <1>3 DEF NothingSentYet
  <1>5. i \in Nat /\ \A j \in Nat : j < i => j < pc
    BY <1>1, <1>4 DEF Requests
  <1>6. \A kind : \A j \in Steps(cmd, kind) : j \in Nat
    BY <1>1 DEF Steps
  <1>7. ~dry
    <2>1. Has(cmd, "dryRun") => Before(cmd, i, "dryRun")
      BY <1>1 DEF WellFormed
    <2> QED
      BY <1>1, <1>5, <1>6, <2>1 DEF NotDry, Before
  <1>8. answer # "no" /\ exit # "declined"
    BY <1>1, <1>3 DEF Consented
  <1>9. Has(cmd, "confirm") => force \/ answer = "yes"
    <2>1. \A j \in Steps(cmd, "confirm") : j < pc
      BY <1>1, <1>5, <1>6 DEF WellFormed
    <2> QED
      BY <1>1, <1>8, <2>1 DEF Consented, Has
  <1>10. cmd.verb = "delete" /\ Has(cmd, "send") => Has(cmd, "confirm")
    <2>1. ASSUME NEW j \in Steps(cmd, "send") PROVE j \in Requests(cmd) /\ cmd.steps[j] = "send"
      BY <2>1 DEF Steps, Requests, Sends
    <2> QED
      BY <1>1, <2>1 DEF WellFormed, Has
  <1> QED
    BY <1>7, <1>8, <1>9, <1>10

LEMMA Predicted == ASSUME Tables, IInv PROVE DryRunPredicts
  <1>1. /\ TypeOK /\ Checked
        /\ cmd \in Unpredicted \/ Predictable(cmd)
    BY DEF IInv, TypeOK, Tables
  <1>2. SUFFICES ASSUME exit = "previewed"
                 PROVE  cmd \in Unpredicted \/ flaw = 0
    BY DEF DryRunPredicts
  <1>3. dry /\ pc \in Steps(cmd, "dryRun")
    BY <1>1, <1>2 DEF Checked
  <1>4. CASE Predictable(cmd)
    <2>1. \A j \in Refusals(cmd) : j < pc
      BY <1>3, <1>4 DEF Predictable
    <2> QED
      BY <1>1, <1>3, <2>1 DEF Checked
  <1> QED
    BY <1>1, <1>4

LEMMA Kept ==
    ASSUME Tables, IInv, [Next]_vars, cmd.verb = "update", ~cmd.replaces, effects' > effects,
           NEW f \in Fields \ (named \cup since \cup cmd.nulled)
    PROVE  resource'[f] = resource[f]
  <1>1. TypeOK /\ Known /\ WellFormed(cmd) /\ effects \in Nat
    BY CommandFacts DEF IInv, TypeOK
  <1>2. Next /\ Send
    BY <1>1, Quiet DEF outcome, vars
  <1>3. Applied /\ pc \in Requests(cmd)
    BY <1>1, <1>2, Request
  <1>4. cmd.emptied = {}
    BY <1>1 DEF WellFormed
  <1>5. cmd.resent # {} => seen[f] = resource[f]
    BY <1>1, <1>3 DEF WellFormed, Before, Known
  <1>6. Sent(f) = resource[f]
    BY <1>4, <1>5 DEF Sent
  <1> QED
    BY <1>3, <1>6 DEF Applied

-------------------------------------------------------------------------------
LEMMA Inductive == ASSUME Tables PROVE Spec => []IInv
  <1>1. Init => IInv
    BY Initially
  <1>2. IInv /\ [Next]_vars => IInv'
    BY StepKeepsIInv
  <1> QED
    BY <1>1, <1>2, PTL DEF Spec

(* The variables keep their types and no request is applied more often     *)
(* than it was sent, for every table of commands in order.                 *)
THEOREM TypeCorrect == ASSUME Tables PROVE Spec => []TypeOK
  <1>1. IInv => TypeOK
    BY DEF IInv
  <1> QED
    BY <1>1, Inductive, PTL

(* No command of such a table sends anything in a dry run, after a no, or  *)
(* before the consent it asks for.                                         *)
THEOREM AlwaysConsented == ASSUME Tables PROVE Spec => []SentWithConsent
  <1>1. IInv => SentWithConsent
    BY Consent
  <1> QED
    BY <1>1, Inductive, PTL

(* What passes the dry run of a command no check of its real run refuses,  *)
(* for every table whose commands, those of Unpredicted apart, check before*)
(* their dry run ends.                                                     *)
THEOREM AlwaysPredicted == ASSUME Tables PROVE Spec => []DryRunPredicts
  <1>1. IInv => DryRunPredicts
    BY Predicted
  <1> QED
    BY <1>1, Inductive, PTL

(* A change the API drops in silence was warned about.                     *)
THEOREM AlwaysWarned == ASSUME Tables PROVE Spec => []DropsAreWarned
  <1>1. IInv => DropsAreWarned
    BY DEF IInv, Warned
  <1> QED
    BY <1>1, Inductive, PTL

(* An update leaves the fields that no flag names as they were, unless     *)
(* another user wrote them after the command had read the resource.        *)
THEOREM AlwaysKept == ASSUME Tables PROVE Spec => UnnamedKept
  <1> DEFINE KeepsUnnamed ==
        cmd.verb = "update" /\ ~cmd.replaces /\ effects' > effects =>
            \A f \in Fields \ (named \cup since \cup cmd.nulled) : resource'[f] = resource[f]
  <1>1. IInv /\ [Next]_vars => [KeepsUnnamed]_vars
    BY Kept
  <1> QED
    BY <1>1, Inductive, PTL DEF Spec, UnnamedKept
===============================================================================
