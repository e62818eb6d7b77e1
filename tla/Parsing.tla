------------------------------ MODULE Parsing ------------------------------
(***************************************************************************)
(* The parsing worker (worker.py): chunk by chunk from the cache or the    *)
(* model to one baseline, which goes to the compliance service or, with    *)
(* the run, to a human; and the unknown blocks to the Learning service.    *)
(*                                                                         *)
(* Several worker processes share the cache and the Learning service, and  *)
(* a job may be delivered more than once. A step ends where a task waits   *)
(* for something others change. The merge at the end of a job goes over    *)
(* the chunks in the order they were read in, so it is made as they come.  *)
(***************************************************************************)
EXTENDS Merge, Learning, Sequences

CONSTANTS
    Run,            \* audit runs
    ChunksOf,       \* the texts of the chunks of a run's file
    VendorOf,       \* what detect_job_context makes of the file
    Deterministic,  \* what the TextFSM templates extract from the file
    Reads,          \* the model's candidates for a text, without and with context
    Logprob,        \* mean_logprob of an answer, in hundredths, or Unset
    Fidelity,       \* reverse_translation_fidelity of one, in hundredths, or Unset
    Task            \* deliveries of parsing.process_config; each is used once

Indices(r) == 1 .. Len(ChunksOf[r])
NoFacts == [f \in Field |-> Unset]

\* A candidate and whether SecurityBaseline accepts it. The last three are history: what
\* it was read from, and the vendors of the mappings in the prompt.
Candidate(facts, valid, text, vendor, prompted) ==
    [facts |-> facts, valid |-> valid, text |-> text, vendor |-> vendor, prompted |-> prompted]

ASSUME ParsingConstants ==
    /\ Block = UNION {{r} \X Indices(r) : r \in Run}
    /\ Nothing \notin Run
    /\ ChunksOf \in [Run -> Seq(Text)]
    /\ \A r \in Run : /\ VendorOf[r] \in Vendor
                      /\ \A i \in Indices(r) : ChunksOf[r][i] = TextOf[<<r, i>>]
    /\ \A x \in Text, hinted \in BOOLEAN : \A c \in Reads[<<x, hinted>>] :
           /\ c.valid \in BOOLEAN /\ DOMAIN c.facts = Field
           /\ c.valid => IsFacts(c.facts)
    /\ \A n \in Logprob \cup Fidelity : n # Unset => n \in Int
    /\ \A r \in Run : IsFacts(Deterministic[r]) /\ IsFiniteSet(leaf_facts(Deterministic[r]))

VARIABLES
    cache,  \* the exact-hash cache in Redis: a candidate by vendor and text, or Nothing
    task    \* the deliveries

vars == <<cache, task, learning_vars>>

Idle == [pc |-> "idle", run |-> Nothing, index |-> 1, context |-> {}, merged |-> NoFacts,
         conflicts |-> {}, sum |-> 0, read |-> {}, parsed |-> {}, unknown |-> {},
         told |-> {}, agreement |-> Nothing]

Over == {"submitted", "human_review", "lost"}

Init ==
    /\ LearningInit
    /\ cache = [k \in Vendor \X Text |-> Nothing]
    /\ task = [t \in Task |-> Idle]

process_config(t, r) ==
    /\ task[t].pc = "idle"
    /\ task' = [task EXCEPT ![t] = [Idle EXCEPT !.run = r,
                                    !.pc = IF ChunksOf[r] = << >> THEN "dispatch" ELSE "lookup"]]
    /\ UNCHANGED <<cache, learning_vars>>

-----------------------------------------------------------------------------
(* _parse_chunk.                                                           *)

text(t) == ChunksOf[task[t].run][task[t].index]
vendor(t) == VendorOf[task[t].run]

\* MUTANT: an entry for every vendor.
key_of_text(v, x) == <<"unknown", x>>

\* The key is a hash over the vendor, the OS and the text.
cache_key(v, x) == <<v, x>>

\* The next chunk, or what follows the last one.
advanced(k) ==
    [k EXCEPT !.index = @ + 1, !.context = {},
              !.pc = IF k.index = Len(ChunksOf[k.run]) THEN "dispatch" ELSE "lookup"]

\* The chunk is an unknown block.
unreadable(k) == [advanced(k) EXCEPT !.unknown = @ \cup {k.index}]

\* model_validate, and the merge with the chunks before.
validated(k, c) ==
    IF ~c.valid THEN unreadable(k)
    ELSE [advanced(k) EXCEPT
            !.parsed = @ \cup {k.index},
            !.read = @ \cup {c},
            !.sum = @ + c.facts["parsing_confidence"],
            !.merged = merge_dict(@, c.facts),
            !.conflicts = @ \cup ({k.index} \X conflicts_of(k.merged, c.facts))]

\* A hit skips the model and its gates.
cache_hit(t) ==
    /\ task[t].pc = "lookup"
    /\ cache[cache_key(vendor(t), text(t))] # Nothing
    /\ task' = [task EXCEPT ![t] = validated(@, cache[cache_key(vendor(t), text(t))])]
    /\ UNCHANGED <<cache, learning_vars>>

\* A miss, or Redis does not answer in time; then the context, or none when Learning fails.
retrieve(t) ==
    /\ task[t].pc = "lookup"
    /\ \E context \in {{}, retrieved(vendor(t), text(t))} :
         task' = [task EXCEPT ![t].pc = "generate", ![t].context = {mapping[b] : b \in context}]
    /\ UNCHANGED <<cache, learning_vars>>

\* No signal is not a bad signal.
uncertain(logprob) == logprob # Unset /\ logprob < -50
unfaithful(fidelity) == fidelity # Unset /\ fidelity < 70

gated_out(logprob, fidelity) == uncertain(logprob) \/ unfaithful(fidelity)

measured(c, logprob, fidelity) ==
    [c.facts EXCEPT !["mean_logprob"] = logprob, !["reverse_translation_fidelity"] = fidelity]

\* The model times out or fails, or its answer is no candidate or does not pass a gate.
generate_fails(t) ==
    /\ task[t].pc = "generate"
    /\ task' = [task EXCEPT ![t] = unreadable(@)]
    /\ UNCHANGED <<cache, learning_vars>>

\* The answer passes the gates, is cached if Redis takes it, and only then validated.
generate(t) ==
    /\ task[t].pc = "generate"
    /\ \E read \in Reads[<<text(t), task[t].context # {}>>], l \in Logprob, f \in Fidelity :
         LET c == Candidate(measured(read, l, f), read.valid, text(t), vendor(t),
                            task[t].context)
         IN  /\ ~gated_out(l, f)
             /\ task' = [task EXCEPT ![t] = validated(@, c)]
             /\ \/ cache' = [cache EXCEPT ![cache_key(vendor(t), text(t))] = c]
                \/ UNCHANGED cache
    /\ UNCHANGED learning_vars

-----------------------------------------------------------------------------
(* The end of a job.                                                       *)

\* MUTANT: a job without a baseline returns first.
of_a_baseline(k) == IF k.parsed = {} THEN {} ELSE k.unknown \ k.told

untold(k) == k.unknown \ k.told

\* _dispatch_unknown_blocks, one task at a time.
dispatch_unknown_block(t) ==
    /\ task[t].pc = "dispatch"
    /\ \E i \in untold(task[t]) :
         /\ \A j \in untold(task[t]) : i <= j
         /\ sent' = sent \cup {<<task[t].run, i>>}
         /\ task' = [task EXCEPT ![t].told = @ \cup {i}]
    /\ UNCHANGED <<cache, queue, mapping, admin>>

good_enough(k) ==
    /\ k.parsed # {}
    /\ confident(k.sum, Cardinality(k.parsed), Cardinality(k.unknown), Cardinality(k.conflicts))

submit(t) ==
    /\ task[t].pc = "dispatch" /\ untold(task[t]) = {}
    /\ good_enough(task[t])
    /\ task' = [task EXCEPT
          ![t].pc = "submitted",
          ![t].agreement = compute_agreement(Filled(task[t].merged), Deterministic[task[t].run])]
    /\ UNCHANGED <<cache, learning_vars>>

review(t) ==
    /\ task[t].pc = "dispatch" /\ untold(task[t]) = {}
    /\ ~good_enough(task[t])
    /\ task' = [task EXCEPT ![t].pc = "human_review"]
    /\ UNCHANGED <<cache, learning_vars>>

\* The worker dies, or a call to the database or the broker raises.
crash(t) ==
    /\ task[t].pc \notin Over \cup {"idle"}
    /\ task' = [task EXCEPT ![t].pc = "lost"]
    /\ UNCHANGED <<cache, learning_vars>>

Next ==
    \/ \E t \in Task, r \in Run : process_config(t, r)
    \/ \E t \in Task : \/ cache_hit(t) \/ retrieve(t) \/ generate_fails(t) \/ generate(t)
                       \/ dispatch_unknown_block(t) \/ submit(t) \/ review(t) \/ crash(t)
    \/ LearningNext /\ UNCHANGED <<cache, task>>

Spec == Init /\ [][Next]_vars

-----------------------------------------------------------------------------
(* Properties.                                                             *)

\* What one chunk was read to say is never lost to what another says: an alarm of any chunk
\* fails its control in the baseline that is submitted, whichever order the chunks are in
\* and whether the model or the cache answered. The exceptions are the two fields of which
\* the merge may keep the other value: it then records a conflict.
AlarmSurvives ==
    \A t \in Task : \A c \in task[t].read : \A id \in Alarms(c.facts) :
        \/ id \in Failing(Filled(task[t].merged))
        \/ id = "1.1.1" /\ \E i \in task[t].parsed : <<i, "ssh_version">> \in task[t].conflicts
        \/ id = "1.5.1" /\ \E i \in task[t].parsed : <<i, "password_encryption">> \in task[t].conflicts

\* Whatever a job read, for itself or as a hit of what another job cached, the model read in
\* the same text for a device of the same vendor, prompted with no other vendor's mappings,
\* and was sure of as far as the gates could measure.
ReadingsAreSound ==
    \A t \in Task : \A c \in task[t].read :
        /\ c.valid
        /\ c.vendor = vendor(t) /\ c.prompted \subseteq {vendor(t)}
        /\ \E i \in task[t].parsed : ChunksOf[task[t].run][i] = c.text
        /\ c.facts["mean_logprob"] # Unset => c.facts["mean_logprob"] >= -50
        /\ c.facts["reverse_translation_fidelity"] # Unset =>
               c.facts["reverse_translation_fidelity"] >= 70

\* When the templates agree with the baseline on all they found, no control they report is
\* missing from what the compliance service evaluates: the decision table applies changes
\* without a human at that agreement.
FullAgreementHidesNothing ==
    \A t \in Task : task[t].pc = "submitted" =>
        \/ task[t].agreement.agreed < task[t].agreement.compared
        \/ Reported(Deterministic[task[t].run]) \subseteq Failing(Filled(task[t].merged))

\* The worker keeps the contract of a job (ParseJob).
Job == INSTANCE ParseJob WITH
    Length <- [r \in Run |-> Len(ChunksOf[r])],
    run <- [t \in Task |-> task[t].run],
    parsed <- [t \in Task |-> task[t].parsed],
    reported <- [t \in Task |-> task[t].told],
    outcome <- [t \in Task |-> IF task[t].pc \in Over THEN task[t].pc ELSE "none"]

ImplementsParseJob == Job!Spec

=============================================================================
