--------------------------- MODULE ParsingProofs ---------------------------
(***************************************************************************)
(* The worker keeps the contract of a parsing job, reads soundly through   *)
(* the cache it shares, and the Learning service takes no block off its    *)
(* queue without a mapping: for any number of runs, chunks, deliveries and *)
(* admins, and whatever the model answers.                                 *)
(***************************************************************************)
EXTENDS Parsing, FiniteSetTheorems, TLAPS

TaskField == {"pc", "run", "index", "context", "merged", "conflicts", "sum", "read",
              "parsed", "unknown", "told", "agreement"}
IsTask(k) == k = [f \in TaskField |-> k[f]]

\* Where a job is in its file, and what became of the chunks before.
JobProgress(k) ==
    /\ k.pc \in {"idle", "lookup", "generate", "dispatch"} \cup Over
    /\ k.run \in Run \cup {Nothing}
    /\ k.pc = "idle" <=> k.run = Nothing
    /\ k.pc = "idle" => k.parsed = {} /\ k.told = {}
    /\ k.pc \in {"lookup", "generate"} =>
        /\ k.index \in 1 .. Len(ChunksOf[k.run])
        /\ k.parsed \cup k.unknown = 1 .. (k.index - 1)
        /\ k.told = {}
    /\ k.pc = "dispatch" =>
        /\ k.parsed \cup k.unknown = 1 .. Len(ChunksOf[k.run])
        /\ k.told \subseteq k.unknown
    /\ k.parsed \cap k.unknown = {}

JobInv ==
    /\ task = [t \in Task |-> task[t]]
    /\ \A t \in Task : IsTask(task[t]) /\ JobProgress(task[t])

LEMMA Lengths == \A r \in Run : Len(ChunksOf[r]) \in Nat
BY ParsingConstants

LEMMA InitJob == Init => JobInv
<1> SUFFICES ASSUME Init PROVE JobInv
    OBVIOUS
<1>1. IsTask(Idle)
      BY DEF IsTask, TaskField, Idle
<1>2. JobProgress(Idle)
      BY ParsingConstants DEF JobProgress, Idle, Over
<1> QED BY <1>1, <1>2 DEF Init, JobInv

\* The next chunk of a job that is reading.
LEMMA Advancing ==
    ASSUME NEW k, IsTask(k), JobProgress(k), k.pc \in {"lookup", "generate"}
    PROVE  /\ IsTask(advanced(k))
           /\ advanced(k).pc = IF k.index = Len(ChunksOf[k.run]) THEN "dispatch" ELSE "lookup"
           /\ advanced(k).index = k.index + 1
           /\ advanced(k).context = {}
           /\ \A f \in TaskField \ {"pc", "index", "context"} : advanced(k)[f] = k[f]
BY DEF IsTask, TaskField, advanced

LEMMA UnreadableProgress ==
    ASSUME NEW k, IsTask(k), JobProgress(k), k.pc \in {"lookup", "generate"}
    PROVE  /\ IsTask(unreadable(k)) /\ JobProgress(unreadable(k))
           /\ unreadable(k).pc \in {"lookup", "dispatch"}
           /\ \A f \in {"run", "parsed", "told", "read", "merged", "conflicts"} :
                  unreadable(k)[f] = k[f]
<1> DEFINE a == advanced(k)
           u == unreadable(k)
<1>1. /\ IsTask(a)
      /\ a.pc = IF k.index = Len(ChunksOf[k.run]) THEN "dispatch" ELSE "lookup"
      /\ a.index = k.index + 1
      /\ \A f \in TaskField \ {"pc", "index", "context"} : a[f] = k[f]
      BY Advancing
<1>2. u = [a EXCEPT !.unknown = a.unknown \cup {k.index}]
      BY DEF unreadable
<1> HIDE DEF a, u
<1>3. /\ IsTask(u) /\ u.unknown = k.unknown \cup {k.index}
      /\ \A f \in TaskField \ {"pc", "index", "context", "unknown"} : u[f] = k[f]
      /\ u.pc = a.pc /\ u.index = k.index + 1
      BY <1>1, <1>2 DEF IsTask, TaskField
<1>4. JobProgress(u)
      BY <1>1, <1>3, Lengths DEF JobProgress, TaskField, Over
<1> QED BY <1>1, <1>3, <1>4 DEF u, TaskField

\* What validated makes of a delivery k: v.
AfterChunk(k, c, v) ==
    /\ IsTask(v) /\ JobProgress(v)
    /\ v.pc \in {"lookup", "dispatch"}
    /\ v.run = k.run /\ v.told = k.told
    /\ \/ /\ v.parsed = k.parsed /\ v.read = k.read
          /\ v.merged = k.merged /\ v.conflicts = k.conflicts
       \/ /\ c.valid
          /\ v.parsed = k.parsed \cup {k.index} /\ v.read = k.read \cup {c}
          /\ v.merged = merge_dict(k.merged, c.facts)
          /\ v.conflicts = k.conflicts \cup ({k.index} \X conflicts_of(k.merged, c.facts))

LEMMA ValidatedProgress ==
    ASSUME NEW k, IsTask(k), JobProgress(k), k.pc \in {"lookup", "generate"}, NEW c
    PROVE  AfterChunk(k, c, validated(k, c))
<1> DEFINE a == advanced(k)
           v == validated(k, c)
<1>1. CASE ~c.valid
      BY <1>1, UnreadableProgress DEF validated, AfterChunk
<1>2. CASE c.valid
  <2>1. /\ IsTask(a)
        /\ a.pc = IF k.index = Len(ChunksOf[k.run]) THEN "dispatch" ELSE "lookup"
        /\ a.index = k.index + 1
        /\ \A f \in TaskField \ {"pc", "index", "context"} : a[f] = k[f]
        BY Advancing
  <2>2. v = [a EXCEPT !.parsed = a.parsed \cup {k.index},
                      !.read = a.read \cup {c},
                      !.sum = a.sum + c.facts["parsing_confidence"],
                      !.merged = merge_dict(a.merged, c.facts),
                      !.conflicts = a.conflicts \cup ({k.index} \X conflicts_of(k.merged, c.facts))]
        BY <1>2 DEF validated
  <2> HIDE DEF a, v
  <2>3. /\ IsTask(v) /\ v.parsed = k.parsed \cup {k.index}
        /\ v.read = k.read \cup {c} /\ v.merged = merge_dict(k.merged, c.facts)
        /\ v.conflicts = k.conflicts \cup ({k.index} \X conflicts_of(k.merged, c.facts))
        /\ v.run = k.run /\ v.told = k.told /\ v.unknown = k.unknown
        /\ v.pc = a.pc /\ v.index = k.index + 1
        BY <2>1, <2>2 DEF IsTask, TaskField
  <2>4. JobProgress(v)
        BY <2>1, <2>3, Lengths DEF JobProgress, Over
  <2>5. AfterChunk(k, c, v)
        BY <1>2, <2>1, <2>3, <2>4 DEF AfterChunk
  <2> QED BY <2>5 DEF v
<1> QED BY <1>1, <1>2

\* One delivery moves; the others stay as they are.
LEMMA OneMoves ==
    ASSUME JobInv, NEW t \in Task, NEW k, IsTask(k), JobProgress(k),
           task' = [task EXCEPT ![t] = k]
    PROVE  JobInv'
BY DEF JobInv

LEMMA JobStep ==
    ASSUME JobInv, [Next]_vars
    PROVE  JobInv'
<1>1. CASE UNCHANGED task
      BY <1>1 DEF JobInv
<1>2. ASSUME NEW t \in Task, NEW r \in Run, process_config(t, r)
      PROVE  JobInv'
  <2> DEFINE pc == IF ChunksOf[r] = << >> THEN "dispatch" ELSE "lookup"
             k == [Idle EXCEPT !.run = r, !.pc = pc]
  <2>1. /\ IsTask(k) /\ k.run = r /\ k.pc = pc /\ k.index = 1
        /\ k.parsed = {} /\ k.unknown = {} /\ k.told = {}
        BY DEF IsTask, TaskField, Idle
  <2>2. task' = [task EXCEPT ![t] = k]
        BY <1>2 DEF process_config
  <2> HIDE DEF k
  <2>3. Len(ChunksOf[r]) \in Nat /\ (ChunksOf[r] = << >> <=> Len(ChunksOf[r]) = 0)
        BY ParsingConstants
  <2>4. JobProgress(k)
        BY <2>1, <2>3, ParsingConstants DEF JobProgress, Over
  <2> QED BY <2>1, <2>2, <2>4, OneMoves
<1>3. ASSUME NEW t \in Task, NEW k, IsTask(k), JobProgress(k), task' = [task EXCEPT ![t] = k]
      PROVE  JobInv'
      BY <1>3, OneMoves
<1>4. ASSUME NEW t \in Task, cache_hit(t)
      PROVE  JobInv'
      BY <1>3, <1>4, ValidatedProgress DEF JobInv, cache_hit, AfterChunk
<1>5. ASSUME NEW t \in Task, retrieve(t)
      PROVE  JobInv'
  <2>1. PICK context : task' = [task EXCEPT ![t].pc = "generate",
                                            ![t].context = {mapping[b] : b \in context}]
        BY <1>5 DEF retrieve
  <2> DEFINE k == [task[t] EXCEPT !.pc = "generate", !.context = {mapping[b] : b \in context}]
  <2>2. IsTask(task[t]) /\ JobProgress(task[t]) /\ task[t].pc = "lookup"
        BY <1>5 DEF JobInv, retrieve
  <2>3. /\ IsTask(k) /\ k.pc = "generate"
        /\ \A f \in TaskField \ {"pc", "context"} : k[f] = task[t][f]
        BY <2>2 DEF IsTask, TaskField
  <2>4. task' = [task EXCEPT ![t] = k]
        BY <2>1 DEF JobInv
  <2> HIDE DEF k
  <2>5. JobProgress(k)
        BY <2>2, <2>3 DEF JobProgress, TaskField, Over
  <2> QED BY <1>3, <2>3, <2>4, <2>5
<1>6. ASSUME NEW t \in Task, generate_fails(t)
      PROVE  JobInv'
      BY <1>3, <1>6, UnreadableProgress DEF JobInv, generate_fails
<1>7. ASSUME NEW t \in Task, generate(t)
      PROVE  JobInv'
  <2>1. PICK c : task' = [task EXCEPT ![t] = validated(task[t], c)]
        BY <1>7 DEF generate
  <2> QED BY <1>3, <1>7, <2>1, ValidatedProgress DEF JobInv, generate, AfterChunk
<1>8. ASSUME NEW t \in Task, dispatch_unknown_block(t)
      PROVE  JobInv'
  <2>1. PICK i \in untold(task[t]) : task' = [task EXCEPT ![t].told = task[t].told \cup {i}]
        BY <1>8 DEF dispatch_unknown_block, JobInv
  <2> DEFINE k == [task[t] EXCEPT !.told = task[t].told \cup {i}]
  <2>2. IsTask(task[t]) /\ JobProgress(task[t]) /\ task[t].pc = "dispatch"
        BY <1>8 DEF JobInv, dispatch_unknown_block
  <2>3. /\ IsTask(k) /\ k.told = task[t].told \cup {i}
        /\ \A f \in TaskField \ {"told"} : k[f] = task[t][f]
        BY <2>2 DEF IsTask, TaskField
  <2>4. task' = [task EXCEPT ![t] = k]
        BY <2>1 DEF JobInv
  <2> HIDE DEF k
  <2>5. JobProgress(k)
        BY <2>1, <2>2, <2>3 DEF JobProgress, TaskField, Over, untold
  <2> QED BY <1>3, <2>3, <2>4, <2>5
<1>9. ASSUME NEW t \in Task, submit(t)
      PROVE  JobInv'
  <2> DEFINE agreed == compute_agreement(Filled(task[t].merged), Deterministic[task[t].run])
             k == [task[t] EXCEPT !.pc = "submitted", !.agreement = agreed]
  <2>1. IsTask(task[t]) /\ JobProgress(task[t]) /\ task[t].pc = "dispatch"
        BY <1>9 DEF JobInv, submit
  <2>2. task' = [task EXCEPT ![t] = k]
        BY <1>9 DEF JobInv, submit
  <2> HIDE DEF agreed
  <2>3. /\ IsTask(k) /\ k.pc = "submitted"
        /\ \A f \in TaskField \ {"pc", "agreement"} : k[f] = task[t][f]
        BY <2>1 DEF IsTask, TaskField
  <2> HIDE DEF k
  <2>4. JobProgress(k)
        BY <2>1, <2>3 DEF JobProgress, TaskField, Over
  <2> QED BY <1>3, <2>2, <2>3, <2>4
<1>10. ASSUME NEW t \in Task, NEW o \in Over, task[t].pc # "idle",
              task' = [task EXCEPT ![t].pc = o]
       PROVE  JobInv'
  <2> DEFINE k == [task[t] EXCEPT !.pc = o]
  <2>1. IsTask(task[t]) /\ JobProgress(task[t])
        BY DEF JobInv
  <2>2. task' = [task EXCEPT ![t] = k]
        BY <1>10 DEF JobInv
  <2>3. /\ IsTask(k) /\ k.pc = o
        /\ \A f \in TaskField \ {"pc"} : k[f] = task[t][f]
        BY <2>1 DEF IsTask, TaskField
  <2> HIDE DEF k
  <2>4. JobProgress(k)
        BY <1>10, <2>1, <2>3 DEF JobProgress, TaskField, Over
  <2> QED BY <1>3, <2>2, <2>3, <2>4
<1>11. ASSUME NEW t \in Task, review(t) \/ crash(t)
       PROVE  JobInv'
       BY <1>10, <1>11 DEF review, crash, Over
<1> QED BY <1>1, <1>2, <1>4, <1>5, <1>6, <1>7, <1>8, <1>9, <1>11 DEF Next, vars

-----------------------------------------------------------------------------
(* The contract. What a delivery shows of itself is its run, what it read, *)
(* what it reported and how it ended.                                      *)

ended(k) == IF k.pc \in Over THEN k.pc ELSE "none"

\* A step of one delivery that shows nothing.
LEMMA Unseen ==
    ASSUME JobInv, NEW t \in Task, NEW k, task' = [task EXCEPT ![t] = k],
           k.run = task[t].run, k.parsed = task[t].parsed, k.told = task[t].told,
           ended(k) = ended(task[t])
    PROVE  UNCHANGED Job!vars
BY DEF JobInv, Job!vars, ended

LEMMA SeenInit == Init => Job!Init
BY DEF Init, Job!Init, Idle, Over

\* A chunk that was read, or was an unknown block.
LEMMA SeenChunk ==
    ASSUME JobInv, NEW t \in Task, NEW c, NEW k, AfterChunk(task[t], c, k),
           task[t].pc \in {"lookup", "generate"}, task' = [task EXCEPT ![t] = k]
    PROVE  [Job!Next]_(Job!vars)
<1> USE DEF AfterChunk
<1>1. IsTask(task[t]) /\ JobProgress(task[t]) /\ task = [s \in Task |-> task[s]]
      BY DEF JobInv
<1>2. CASE k.parsed = task[t].parsed
  <2>1. ended(k) = ended(task[t])
        BY DEF ended, Over
  <2> QED BY <1>2, <2>1, Unseen
<1>3. CASE k.parsed = task[t].parsed \cup {task[t].index}
  <2>1. PICK i : i = task[t].index
        OBVIOUS
  <2>2. /\ task[t].run # Nothing /\ i \in 1 .. Len(ChunksOf[task[t].run])
        /\ task[t].run \in Run /\ task[t].told = {}
        BY <1>1, <2>1 DEF JobProgress
  <2>3. Job!Parse(t, i)
        BY <1>1, <1>3, <2>1, <2>2 DEF Job!Parse, Job!Working, Over
  <2>4. i \in Job!Chunks(t)
        BY <1>1, <2>2 DEF Job!Chunks
  <2> QED BY <2>3, <2>4 DEF Job!Next
<1> QED BY <1>2, <1>3

\* A job that has told all it could not read is done with its file.
LEMMA AllToldOf ==
    ASSUME JobInv, NEW t \in Task, task[t].pc = "dispatch", untold(task[t]) = {}
    PROVE  /\ Job!Working(t)
           /\ task[t].parsed \cup task[t].told = Job!Chunks(t)
<1>1. JobProgress(task[t])
      BY DEF JobInv
<1> QED BY <1>1 DEF JobProgress, Over, untold, Job!Working, Job!Chunks

LEMMA SeenStep ==
    ASSUME JobInv, [Next]_vars
    PROVE  [Job!Next]_(Job!vars)
<1>1. CASE UNCHANGED task
      BY <1>1 DEF Job!vars
<1>2. \A t \in Task : IsTask(task[t]) /\ JobProgress(task[t])
      BY DEF JobInv
<1>3. ASSUME NEW t \in Task, NEW r \in Run, process_config(t, r)
      PROVE  [Job!Next]_(Job!vars)
  <2>1. /\ task[t].run = Nothing /\ task[t].pc = "idle" /\ task[t].parsed = {} /\ task[t].told = {}
        BY <1>2, <1>3 DEF process_config, JobProgress
  <2> DEFINE pc == IF ChunksOf[r] = << >> THEN "dispatch" ELSE "lookup"
             k == [Idle EXCEPT !.run = r, !.pc = pc]
  <2>2. k.run = r /\ k.parsed = {} /\ k.told = {} /\ k.pc \in {"lookup", "dispatch"}
        BY DEF Idle
  <2>3. task' = [task EXCEPT ![t] = k]
        BY <1>3 DEF process_config
  <2> HIDE DEF k
  <2>4. Job!Begin(t, r)
        BY <2>1, <2>2, <2>3 DEF JobInv, Job!Begin, Over
  <2> QED BY <2>4 DEF Job!Next
<1>4. ASSUME NEW t \in Task, cache_hit(t)
      PROVE  [Job!Next]_(Job!vars)
  <2>1. PICK c : task' = [task EXCEPT ![t] = validated(task[t], c)]
        BY <1>4 DEF cache_hit
  <2>2. task[t].pc = "lookup"
        BY <1>4 DEF cache_hit
  <2>3. AfterChunk(task[t], c, validated(task[t], c))
        BY <1>2, <2>2, ValidatedProgress
  <2> QED BY <2>1, <2>2, <2>3, SeenChunk
<1>5. ASSUME NEW t \in Task, retrieve(t)
      PROVE  [Job!Next]_(Job!vars)
  <2>1. PICK context : task' = [task EXCEPT ![t].pc = "generate",
                                            ![t].context = {mapping[b] : b \in context}]
        BY <1>5 DEF retrieve
  <2> DEFINE k == [task[t] EXCEPT !.pc = "generate", !.context = {mapping[b] : b \in context}]
  <2>2. task' = [task EXCEPT ![t] = k]
        BY <2>1 DEF JobInv
  <2>3. /\ k.pc = "generate" /\ task[t].pc = "lookup"
        /\ k.run = task[t].run /\ k.parsed = task[t].parsed /\ k.told = task[t].told
        BY <1>2, <1>5 DEF IsTask, TaskField, retrieve
  <2> HIDE DEF k
  <2> QED BY <2>2, <2>3, Unseen DEF ended, Over
<1>6. ASSUME NEW t \in Task, generate_fails(t)
      PROVE  [Job!Next]_(Job!vars)
  <2>1. task[t].pc = "generate" /\ task' = [task EXCEPT ![t] = unreadable(task[t])]
        BY <1>6 DEF generate_fails
  <2>2. AfterChunk(task[t], Nothing, unreadable(task[t]))
        BY <1>2, <2>1, UnreadableProgress DEF AfterChunk
  <2> QED BY <2>1, <2>2, SeenChunk
<1>7. ASSUME NEW t \in Task, generate(t)
      PROVE  [Job!Next]_(Job!vars)
  <2>1. PICK c : task' = [task EXCEPT ![t] = validated(task[t], c)]
        BY <1>7 DEF generate
  <2>2. task[t].pc = "generate"
        BY <1>7 DEF generate
  <2>3. AfterChunk(task[t], c, validated(task[t], c))
        BY <1>2, <2>2, ValidatedProgress
  <2> QED BY <2>1, <2>2, <2>3, SeenChunk
<1>8. ASSUME NEW t \in Task, dispatch_unknown_block(t)
      PROVE  [Job!Next]_(Job!vars)
  <2>1. PICK i \in untold(task[t]) : task' = [task EXCEPT ![t].told = task[t].told \cup {i}]
        BY <1>8 DEF dispatch_unknown_block, JobInv
  <2>2. /\ task[t].pc = "dispatch" /\ task[t].run \in Run /\ task[t].run # Nothing
        /\ i \in task[t].unknown /\ i \notin task[t].parsed
        /\ i \in 1 .. Len(ChunksOf[task[t].run])
        BY <1>2, <1>8, <2>1 DEF dispatch_unknown_block, JobProgress, untold
  <2>3. Job!Report(t, i)
        BY <1>2, <2>1, <2>2 DEF JobInv, Job!Report, Job!Working, Over, IsTask, TaskField
  <2>4. i \in Job!Chunks(t)
        BY <2>2 DEF Job!Chunks
  <2> QED BY <2>3, <2>4 DEF Job!Next
<1>9. ASSUME NEW t \in Task, submit(t)
      PROVE  [Job!Next]_(Job!vars)
  <2> DEFINE agreed == compute_agreement(Filled(task[t].merged), Deterministic[task[t].run])
             k == [task[t] EXCEPT !.pc = "submitted", !.agreement = agreed]
  <2>1. task' = [task EXCEPT ![t] = k]
        BY <1>9 DEF JobInv, submit
  <2> HIDE DEF agreed
  <2>2. /\ k.pc = "submitted"
        /\ k.run = task[t].run /\ k.parsed = task[t].parsed /\ k.told = task[t].told
        BY <1>2 DEF IsTask, TaskField
  <2> HIDE DEF k
  <2>3. Job!Finish(t, "submitted")
        BY <1>9, <2>1, <2>2, AllToldOf DEF submit, good_enough, JobInv, Job!Finish, Over
  <2> QED BY <2>3 DEF Job!Next
<1>10. ASSUME NEW t \in Task, review(t)
       PROVE  [Job!Next]_(Job!vars)
  <2>1. Job!Finish(t, "human_review")
        BY <1>10, <1>2, AllToldOf DEF review, JobInv, Job!Finish, Over, IsTask, TaskField
  <2> QED BY <2>1 DEF Job!Next
<1>11. ASSUME NEW t \in Task, crash(t)
       PROVE  [Job!Next]_(Job!vars)
  <2>1. task[t].run # Nothing
        BY <1>2, <1>11 DEF crash, JobProgress
  <2>2. Job!Lose(t)
        BY <1>11, <1>2, <2>1 DEF crash, JobInv, Job!Lose, Job!Working, Over, IsTask, TaskField
  <2> QED BY <2>2 DEF Job!Next
<1> QED BY <1>1, <1>3, <1>4, <1>5, <1>6, <1>7, <1>8, <1>9, <1>10, <1>11 DEF Next, vars

\* The worker keeps the contract of a job: it ends at most once, submitted or in review, and
\* by then every chunk was read or reported, through retries, failing models and crashes.
THEOREM WorkerKeepsContract == Spec => ImplementsParseJob
<1>1. Init => Job!Init
      BY SeenInit
<1>2. Init => JobInv
      BY InitJob
<1>3. JobInv /\ [Next]_vars => JobInv'
      BY JobStep
<1>4. JobInv /\ [Next]_vars => [Job!Next]_(Job!vars)
      BY SeenStep
<1>5. QED
      BY <1>1, <1>2, <1>3, <1>4, PTL DEF Spec, ImplementsParseJob, Job!Spec

-----------------------------------------------------------------------------
(* What is taken from the cache. An entry was made for its own key, and    *)
(* what a job read was made for one of its chunks.                         *)

MadeFor(c, v, x) ==
    /\ c.vendor = v /\ c.text = x /\ c.prompted \subseteq {v}
    /\ c.facts["mean_logprob"] # Unset => c.facts["mean_logprob"] >= -50
    /\ c.facts["reverse_translation_fidelity"] # Unset =>
           c.facts["reverse_translation_fidelity"] >= 70

CacheInv ==
    /\ cache = [p \in Vendor \X Text |-> cache[p]]
    /\ \A v \in Vendor, x \in Text : cache[<<v, x>>] # Nothing => MadeFor(cache[<<v, x>>], v, x)

ReadSoundly(k) ==
    /\ k.pc = "idle" => k.read = {}
    /\ k.pc = "generate" => k.context \subseteq {VendorOf[k.run]}
    /\ \A c \in k.read : c.valid /\ \E i \in k.parsed : MadeFor(c, VendorOf[k.run], ChunksOf[k.run][i])

SoundInv == JobInv /\ CacheInv /\ \A t \in Task : ReadSoundly(task[t])

LEMMA InitSound == Init => SoundInv
BY InitJob DEF Init, SoundInv, CacheInv, ReadSoundly, Idle

\* What a chunk under way is, and whose.
LEMMA Reading ==
    ASSUME JobInv, NEW t \in Task, task[t].pc \in {"lookup", "generate"}
    PROVE  vendor(t) \in Vendor /\ text(t) \in Text /\ task[t].run \in Run
<1>1. task[t].run \in Run /\ task[t].index \in 1 .. Len(ChunksOf[task[t].run])
      BY DEF JobInv, JobProgress
<1> QED BY <1>1, ParsingConstants DEF vendor, text

\* A candidate made for the chunk under way is read soundly.
LEMMA ValidatedSoundly ==
    ASSUME SoundInv, NEW t \in Task, task[t].pc \in {"lookup", "generate"},
           NEW c, MadeFor(c, vendor(t), text(t))
    PROVE  ReadSoundly(validated(task[t], c))
<1> DEFINE k == task[t]
           v == validated(k, c)
<1>1. IsTask(k) /\ JobProgress(k) /\ ReadSoundly(k)
      BY DEF SoundInv, JobInv
<1>2. AfterChunk(k, c, v)
      BY <1>1, ValidatedProgress
<1>3. MadeFor(c, VendorOf[k.run], ChunksOf[k.run][k.index])
      BY DEF vendor, text
<1> HIDE DEF k, v
<1>4. ReadSoundly(v)
      BY <1>1, <1>2, <1>3 DEF ReadSoundly, AfterChunk
<1> QED BY <1>4 DEF v, k

\* A step of one delivery that leaves the cache alone.
LEMMA OneReads ==
    ASSUME SoundInv, [Next]_vars, UNCHANGED cache, NEW t \in Task, NEW k, ReadSoundly(k),
           task' = [task EXCEPT ![t] = k]
    PROVE  SoundInv'
BY JobStep DEF SoundInv, JobInv, CacheInv

LEMMA SoundStep ==
    ASSUME SoundInv, [Next]_vars
    PROVE  SoundInv'
<1>1. CASE UNCHANGED <<cache, task>>
      BY <1>1 DEF SoundInv, JobInv, CacheInv, IsTask
<1>2. JobInv /\ JobInv' /\ \A t \in Task : IsTask(task[t]) /\ ReadSoundly(task[t])
      BY JobStep DEF SoundInv, JobInv
<1>3. ASSUME NEW t \in Task, NEW r \in Run, process_config(t, r)
      PROVE  SoundInv'
  <2> DEFINE pc == IF ChunksOf[r] = << >> THEN "dispatch" ELSE "lookup"
             k == [Idle EXCEPT !.run = r, !.pc = pc]
  <2>1. k.read = {} /\ k.pc \in {"lookup", "dispatch"}
        BY DEF Idle
  <2>2. task' = [task EXCEPT ![t] = k] /\ UNCHANGED cache
        BY <1>3 DEF process_config
  <2> HIDE DEF k
  <2>3. ReadSoundly(k)
        BY <2>1 DEF ReadSoundly
  <2> QED BY <2>2, <2>3, OneReads
<1>4. ASSUME NEW t \in Task, cache_hit(t)
      PROVE  SoundInv'
  <2> DEFINE c == cache[cache_key(vendor(t), text(t))]
  <2>1. MadeFor(c, vendor(t), text(t))
        BY <1>2, <1>4, Reading DEF SoundInv, CacheInv, cache_hit, cache_key
  <2>2. task[t].pc \in {"lookup", "generate"}
        /\ task' = [task EXCEPT ![t] = validated(task[t], c)] /\ UNCHANGED cache
        BY <1>4 DEF cache_hit
  <2> HIDE DEF c
  <2> QED BY <2>1, <2>2, ValidatedSoundly, OneReads
<1>5. ASSUME NEW t \in Task, retrieve(t)
      PROVE  SoundInv'
  <2>1. PICK context \in {{}, retrieved(vendor(t), text(t))} :
            task' = [task EXCEPT ![t].pc = "generate", ![t].context = {mapping[b] : b \in context}]
        BY <1>5 DEF retrieve
  <2> DEFINE vs == {mapping[b] : b \in context}
             k == [task[t] EXCEPT !.pc = "generate", !.context = vs]
  <2>2. vs \subseteq {vendor(t)}
        BY <2>1 DEF retrieved
  <2>3. task' = [task EXCEPT ![t] = k] /\ UNCHANGED cache
        BY <1>5, <2>1 DEF JobInv, SoundInv, retrieve
  <2> HIDE DEF vs
  <2>4. /\ k.pc = "generate" /\ k.context = vs
        /\ k.run = task[t].run /\ k.read = task[t].read /\ k.parsed = task[t].parsed
        BY <1>2 DEF IsTask, TaskField
  <2> HIDE DEF k
  <2>5. ReadSoundly(k)
        BY <1>2, <2>2, <2>4 DEF ReadSoundly, vendor
  <2> QED BY <2>3, <2>5, OneReads
<1>6. ASSUME NEW t \in Task, generate_fails(t)
      PROVE  SoundInv'
  <2>1. task[t].pc = "generate" /\ task' = [task EXCEPT ![t] = unreadable(task[t])]
        /\ UNCHANGED cache
        BY <1>6 DEF generate_fails
  <2>2. ReadSoundly(unreadable(task[t]))
        BY <1>2, <2>1, UnreadableProgress DEF ReadSoundly, JobInv
  <2> QED BY <2>1, <2>2, OneReads
<1>7. ASSUME NEW t \in Task, generate(t)
      PROVE  SoundInv'
  <2>1. PICK read \in Reads[<<text(t), task[t].context # {}>>], l \in Logprob, f \in Fidelity :
          LET c == Candidate(measured(read, l, f), read.valid, text(t), vendor(t), task[t].context)
          IN  /\ ~gated_out(l, f)
              /\ task' = [task EXCEPT ![t] = validated(task[t], c)]
              /\ \/ cache' = [cache EXCEPT ![cache_key(vendor(t), text(t))] = c]
                 \/ UNCHANGED cache
        BY <1>7 DEF generate
  <2> DEFINE facts == measured(read, l, f)
             c == Candidate(facts, read.valid, text(t), vendor(t), task[t].context)
  <2>2. task[t].pc = "generate" /\ vendor(t) \in Vendor /\ text(t) \in Text
        BY <1>2, <1>7, Reading DEF generate
  <2>3. DOMAIN read.facts = Field
        BY <2>2, ParsingConstants
  <2>4. facts["mean_logprob"] = l /\ facts["reverse_translation_fidelity"] = f
        BY <2>3 DEF measured, Field, Signal
  <2>5. (l # Unset => l >= -50) /\ (f # Unset => f >= 70)
        BY <2>1, ParsingConstants DEF gated_out, uncertain, unfaithful
  <2>6. task[t].context \subseteq {vendor(t)}
        BY <1>2, <2>2 DEF ReadSoundly, vendor
  <2> HIDE DEF facts
  <2>7. MadeFor(c, vendor(t), text(t))
        BY <2>4, <2>5, <2>6 DEF MadeFor, Candidate
  <2>8. /\ task' = [task EXCEPT ![t] = validated(task[t], c)]
        /\ \/ cache' = [cache EXCEPT ![<<vendor(t), text(t)>>] = c]
           \/ UNCHANGED cache
        BY <2>1 DEF facts, cache_key
  <2> HIDE DEF c
  <2>9. CacheInv'
        BY <2>2, <2>7, <2>8 DEF SoundInv, CacheInv
  <2>10. ReadSoundly(validated(task[t], c))
        BY <2>2, <2>7, ValidatedSoundly
  <2> QED BY <1>2, <2>8, <2>9, <2>10 DEF SoundInv, JobInv
<1>8. ASSUME NEW t \in Task, dispatch_unknown_block(t) \/ submit(t) \/ review(t) \/ crash(t)
      PROVE  SoundInv'
  <2>1. /\ UNCHANGED cache
        /\ \A s \in Task \ {t} : task'[s] = task[s]
        BY <1>2, <1>8 DEF dispatch_unknown_block, submit, review, crash, JobInv
  <2>2. /\ task'[t].pc \notin {"idle", "generate"}
        /\ task'[t].run = task[t].run /\ task'[t].read = task[t].read
        /\ task'[t].parsed = task[t].parsed
        BY <1>2, <1>8 DEF dispatch_unknown_block, submit, review, crash, JobInv, IsTask, TaskField, Over
  <2>3. ReadSoundly(task[t])'
        BY <1>2, <2>2 DEF ReadSoundly
  <2> QED BY <1>2, <2>1, <2>3 DEF SoundInv, CacheInv
<1> QED BY <1>1, <1>3, <1>4, <1>5, <1>6, <1>7, <1>8 DEF Next, vars

\* Whatever a job read, for itself or as a hit of what another job cached, was made for one of
\* its chunks, of its vendor, by a model that was as sure as the gates could measure.
THEOREM ReadingsStaySound == Spec => []ReadingsAreSound
<1>1. Init => SoundInv
      BY InitSound
<1>2. SoundInv /\ [Next]_vars => SoundInv'
      BY SoundStep
<1>3. SoundInv => ReadingsAreSound
      BY DEF SoundInv, ReadSoundly, ReadingsAreSound, MadeFor, vendor
<1>4. QED
      BY <1>1, <1>2, <1>3, PTL DEF Spec

-----------------------------------------------------------------------------
(* Alarms. One chunk's facts against another's, field by field.            *)

LEMMA FailingAlarms ==
    ASSUME NEW x, IsFacts(x)
    PROVE  /\ "1.1.1" \in Failing(Filled(x)) <=> x["ssh_version"] \in {"1", "1-2"}
           /\ "1.1.2" \in Failing(Filled(x)) <=> x["telnet"] = "ENABLED"
           /\ "1.5.1" \in Failing(Filled(x)) <=> x["password_encryption"] = "DISABLED"
           /\ "1.7.1" \in Failing(Filled(x)) <=> x["http_server"] = "ENABLED"
           /\ "1.2.2" \in Failing(Filled(x)) <=>
                  x["community_strings"] # Unset /\ x["community_strings"] \cap Default # {}
           /\ "1.3.1" \in Failing(Filled(x)) <=>
                  x["ike_policies"] # Unset /\ \E p \in x["ike_policies"] : p.encryption \in Weak
<1> DEFINE b == Filled(x)
<1>1. /\ b.ssh_version = IF x["ssh_version"] = Unset THEN "none" ELSE x["ssh_version"]
      /\ b.telnet = IF x["telnet"] = Unset THEN "UNKNOWN" ELSE x["telnet"]
      /\ b.password_encryption =
             IF x["password_encryption"] = Unset THEN "UNKNOWN" ELSE x["password_encryption"]
      /\ b.http_server = IF x["http_server"] = Unset THEN "UNKNOWN" ELSE x["http_server"]
      /\ b.community_strings = IF x["community_strings"] = Unset THEN {} ELSE x["community_strings"]
      /\ b.ike_policies = IF x["ike_policies"] = Unset THEN {} ELSE x["ike_policies"]
      BY DEF Filled, DefaultBaseline, Field, Flag, Status, List, Token, Signal
<1> HIDE DEF b
<1>2. \A c \in Control : c \in Failing(b) <=> evidence(c, b) # {}
      BY DEF Failing
<1>3. /\ evidence("1.1.1", b) = Once(b.ssh_version \notin {"none", "2"})
      /\ evidence("1.1.2", b) = Once(b.telnet = "ENABLED")
      /\ evidence("1.2.2", b) = ill_communities(b)
      /\ evidence("1.3.1", b) = weak_policies(b)
      /\ evidence("1.5.1", b) = Once(b.password_encryption = "DISABLED")
      /\ evidence("1.7.1", b) = Once(b.http_server = "ENABLED")
      BY DEF evidence
<1>4. \A P \in BOOLEAN : Once(P) # {} <=> P
      BY DEF Once
<1>5. /\ "1.1.1" \in Failing(b) <=> b.ssh_version \notin {"none", "2"}
      /\ "1.1.2" \in Failing(b) <=> b.telnet = "ENABLED"
      /\ "1.2.2" \in Failing(b) <=> b.community_strings \cap Default # {}
      /\ "1.3.1" \in Failing(b) <=> \E p \in b.ike_policies : p.encryption \in Weak
      /\ "1.5.1" \in Failing(b) <=> b.password_encryption = "DISABLED"
      /\ "1.7.1" \in Failing(b) <=> b.http_server = "ENABLED"
      BY <1>2, <1>3, <1>4 DEF Control, ill_communities, weak_policies
<1>6. /\ "1.1.1" \in Failing(b) <=> x["ssh_version"] \in {"1", "1-2"}
      /\ "1.1.2" \in Failing(b) <=> x["telnet"] = "ENABLED"
      /\ "1.5.1" \in Failing(b) <=> x["password_encryption"] = "DISABLED"
      /\ "1.7.1" \in Failing(b) <=> x["http_server"] = "ENABLED"
      BY <1>1, <1>5, UnsetIsNoValue DEF IsFacts, Status, ProtocolStatus
<1>7. /\ "1.2.2" \in Failing(b) <=>
             x["community_strings"] # Unset /\ x["community_strings"] \cap Default # {}
      /\ "1.3.1" \in Failing(b) <=>
             x["ike_policies"] # Unset /\ \E p \in x["ike_policies"] : p.encryption \in Weak
      BY <1>1, <1>5
<1> QED BY <1>6, <1>7 DEF b

LEMMA StatusMerge ==
    ASSUME NEW f \in Status, NEW old \in {Unset} \cup ProtocolStatus,
           NEW new \in {Unset} \cup ProtocolStatus
    PROVE  /\ merge_value(f, old, new) \in {Unset} \cup ProtocolStatus
           /\ "ENABLED" \in {old, new} => merge_value(f, old, new) = "ENABLED"
           /\ "DISABLED" \in {old, new} =>
                  \/ merge_value(f, old, new) = "DISABLED"
                  \/ {old, new} = {"ENABLED", "DISABLED"}
BY UnsetIsNoValue DEF merge_value, is_unknown, is_negative_scalar, Status, List, Token, Flag,
                      ProtocolStatus

LEMMA VersionMerge ==
    ASSUME NEW old \in {Unset, "none", "1", "1-2", "2"}, NEW new \in {Unset, "none", "1", "1-2", "2"}
    PROVE  LET value == merge_value("ssh_version", old, new)
           IN  /\ value \in {Unset, "none", "1", "1-2", "2"}
               /\ old \in {"1", "1-2"} => value \in {"1", "1-2"}
               /\ new \in {"1", "1-2"} => value \in {"1", "1-2"} \/ old = "2"
BY UnsetIsNoValue DEF merge_value, is_unknown, is_negative_scalar, Status, List, Token, Flag, Absent

LEMMA ListMerge ==
    ASSUME NEW f \in List, NEW V, \A s \in SUBSET V : Unset # s,
           NEW old \in {Unset} \cup SUBSET V, NEW new \in {Unset} \cup SUBSET V
    PROVE  LET value == merge_value(f, old, new)
           IN  /\ value \in {Unset} \cup SUBSET V
               /\ old # Unset => value # Unset /\ old \subseteq value
               /\ new # Unset => value # Unset /\ new \subseteq value
BY DEF merge_value, is_unknown, Status, List, Token

\* No alarm of either is lost, but for the two fields with a conflict.
LEMMA MergeKeepsAlarms ==
    ASSUME NEW m, NEW n, IsFacts(m), IsFacts(n)
    PROVE  /\ IsFacts(merge_dict(m, n))
           /\ \A id \in Alarms(m) \cup Alarms(n) :
                 \/ id \in Failing(Filled(merge_dict(m, n)))
                 \/ id = "1.1.1" /\ "ssh_version" \in conflicts_of(m, n)
                 \/ id = "1.5.1" /\ "password_encryption" \in conflicts_of(m, n)
<1> DEFINE r == merge_dict(m, n)
<1>1. \A f \in Field : r[f] = merge_value(f, m[f], n[f])
      BY DEF merge_dict
<1>2. {"telnet", "http_server", "password_encryption", "ssh_version", "community_strings",
       "ike_policies"} \subseteq Field
      BY DEF Field, Flag, Status, List, Token
<1> HIDE DEF r
<1>3. \A f \in Status : /\ r[f] \in {Unset} \cup ProtocolStatus
                        /\ "ENABLED" \in {m[f], n[f]} => r[f] = "ENABLED"
                        /\ "DISABLED" \in {m[f], n[f]} =>
                               r[f] = "DISABLED" \/ {m[f], n[f]} = {"ENABLED", "DISABLED"}
  <2> SUFFICES ASSUME NEW f \in Status
               PROVE  /\ r[f] \in {Unset} \cup ProtocolStatus
                      /\ "ENABLED" \in {m[f], n[f]} => r[f] = "ENABLED"
                      /\ "DISABLED" \in {m[f], n[f]} =>
                             r[f] = "DISABLED" \/ {m[f], n[f]} = {"ENABLED", "DISABLED"}
      OBVIOUS
  <2>1. r[f] = merge_value(f, m[f], n[f])
        BY <1>1 DEF Field
  <2>2. m[f] \in {Unset} \cup ProtocolStatus /\ n[f] \in {Unset} \cup ProtocolStatus
        BY DEF IsFacts
  <2> QED BY <2>1, <2>2, StatusMerge
<1>4. /\ r["ssh_version"] \in {Unset, "none", "1", "1-2", "2"}
      /\ m["ssh_version"] \in {"1", "1-2"} => r["ssh_version"] \in {"1", "1-2"}
      /\ n["ssh_version"] \in {"1", "1-2"} =>
             r["ssh_version"] \in {"1", "1-2"} \/ m["ssh_version"] = "2"
      BY <1>1, <1>2, VersionMerge DEF IsFacts
<1>5. /\ r["community_strings"] \in {Unset} \cup SUBSET Community
      /\ m["community_strings"] # Unset =>
             r["community_strings"] # Unset /\ m["community_strings"] \subseteq r["community_strings"]
      /\ n["community_strings"] # Unset =>
             r["community_strings"] # Unset /\ n["community_strings"] \subseteq r["community_strings"]
  <2>1. "community_strings" \in List /\ \A s \in SUBSET Community : Unset # s
        BY UnsetIsNoValue DEF List
  <2> QED BY <1>1, <1>2, <2>1, ListMerge DEF IsFacts
<1>6. /\ r["ike_policies"] \in {Unset} \cup SUBSET Policies
      /\ m["ike_policies"] # Unset =>
             r["ike_policies"] # Unset /\ m["ike_policies"] \subseteq r["ike_policies"]
      /\ n["ike_policies"] # Unset =>
             r["ike_policies"] # Unset /\ n["ike_policies"] \subseteq r["ike_policies"]
  <2>1. "ike_policies" \in List
        BY DEF List
  <2>2. ASSUME NEW s \in SUBSET Policies PROVE Unset # s
        BY UnsetIsNoValue
  <2> QED BY <1>1, <1>2, <2>1, <2>2, ListMerge DEF IsFacts
<1>7. IsFacts(r)
      BY <1>3, <1>4, <1>5, <1>6 DEF IsFacts
<1>8. ASSUME NEW id \in Alarms(m) \cup Alarms(n)
      PROVE  \/ id \in Failing(Filled(r))
             \/ id = "1.1.1" /\ "ssh_version" \in conflicts_of(m, n)
             \/ id = "1.5.1" /\ "password_encryption" \in conflicts_of(m, n)
  <2>1. id \in Alarming /\ (id \in Failing(Filled(m)) \/ id \in Failing(Filled(n)))
        BY DEF Alarms
  <2>2. CASE id = "1.1.1"
    <3>1. m["ssh_version"] = "2" /\ n["ssh_version"] \in {"1", "1-2"} =>
              "ssh_version" \in conflicts_of(m, n)
          BY <1>2, UnsetIsNoValue DEF conflicts_of, is_unknown, List, Status, Token, Absent
    <3> QED BY <1>4, <1>7, <2>1, <2>2, <3>1, FailingAlarms
  <2>3. CASE id = "1.5.1"
    <3>1. {m["password_encryption"], n["password_encryption"]} = {"ENABLED", "DISABLED"} =>
              "password_encryption" \in conflicts_of(m, n)
          BY <1>2, UnsetIsNoValue DEF conflicts_of, is_unknown, List, Status, Token, ProtocolStatus
    <3> QED BY <1>3, <1>7, <2>1, <2>3, <3>1, FailingAlarms DEF Status
  <2>4. CASE id \in {"1.1.2", "1.7.1"}
        BY <1>3, <1>7, <2>1, <2>4, FailingAlarms DEF Status
  <2>5. CASE id = "1.2.2"
        BY <1>5, <1>7, <2>1, <2>5, FailingAlarms
  <2>6. CASE id = "1.3.1"
        BY <1>6, <1>7, <2>1, <2>6, FailingAlarms
  <2> QED BY <2>1, <2>2, <2>3, <2>4, <2>5, <2>6 DEF Alarming
<1> QED BY <1>7, <1>8 DEF r

-----------------------------------------------------------------------------
\* Every alarm of what a job read is in what it merged, or in its conflicts.
AlarmKept(k, id) ==
    \/ id \in Failing(Filled(k.merged))
    \/ id = "1.1.1" /\ \E i \in k.parsed : <<i, "ssh_version">> \in k.conflicts
    \/ id = "1.5.1" /\ \E i \in k.parsed : <<i, "password_encryption">> \in k.conflicts

AlarmsKept(k) ==
    /\ IsFacts(k.merged)
    /\ \A c \in k.read : \A id \in Alarms(c.facts) : AlarmKept(k, id)

AlarmInv ==
    /\ JobInv
    /\ cache = [p \in Vendor \X Text |-> cache[p]]
    /\ \A p \in Vendor \X Text : cache[p] # Nothing /\ cache[p].valid => IsFacts(cache[p].facts)
    /\ \A t \in Task : AlarmsKept(task[t])

LEMMA NoFactsAreFacts == IsFacts(NoFacts)
BY DEF IsFacts, NoFacts, Field, Flag, Status, List, Token

LEMMA InitAlarms == Init => AlarmInv
BY InitJob, NoFactsAreFacts DEF Init, AlarmInv, AlarmsKept, Idle

\* Steps that read nothing.
LEMMA SameAlarms ==
    ASSUME NEW k, NEW j, AlarmsKept(k), j.read = k.read, j.merged = k.merged,
           j.parsed = k.parsed, j.conflicts = k.conflicts
    PROVE  AlarmsKept(j)
BY DEF AlarmsKept, AlarmKept

LEMMA ValidatedKeeps ==
    ASSUME AlarmInv, NEW t \in Task, task[t].pc \in {"lookup", "generate"},
           NEW c, c.valid => IsFacts(c.facts)
    PROVE  AlarmsKept(validated(task[t], c))
<1> DEFINE k == task[t]
           v == validated(k, c)
<1>1. IsTask(k) /\ JobProgress(k) /\ AlarmsKept(k)
      BY DEF AlarmInv, JobInv
<1>2. AfterChunk(k, c, v)
      BY <1>1, ValidatedProgress
<1> HIDE DEF k, v
<1>3. ASSUME v.parsed = k.parsed, v.read = k.read, v.merged = k.merged, v.conflicts = k.conflicts
      PROVE  AlarmsKept(v)
      BY <1>1, <1>3, SameAlarms
<1>4. ASSUME c.valid, v.parsed = k.parsed \cup {k.index}, v.read = k.read \cup {c},
             v.merged = merge_dict(k.merged, c.facts),
             v.conflicts = k.conflicts \cup ({k.index} \X conflicts_of(k.merged, c.facts))
      PROVE  AlarmsKept(v)
  <2>1. /\ IsFacts(v.merged)
        /\ \A id \in Alarms(k.merged) \cup Alarms(c.facts) :
             \/ id \in Failing(Filled(v.merged))
             \/ id = "1.1.1" /\ "ssh_version" \in conflicts_of(k.merged, c.facts)
             \/ id = "1.5.1" /\ "password_encryption" \in conflicts_of(k.merged, c.facts)
        BY <1>1, <1>4, MergeKeepsAlarms DEF AlarmsKept
  <2>2. ASSUME NEW id \in Alarms(k.merged) \cup Alarms(c.facts) PROVE AlarmKept(v, id)
        BY <1>4, <2>1 DEF AlarmKept
  <2>3. ASSUME NEW d \in k.read, NEW id \in Alarms(d.facts) PROVE AlarmKept(v, id)
    <3>1. AlarmKept(k, id)
          BY <1>1 DEF AlarmsKept
    <3>2. CASE id \in Failing(Filled(k.merged))
          BY <2>2, <3>2 DEF Alarms
    <3>3. CASE id \notin Failing(Filled(k.merged))
          BY <1>4, <3>1, <3>3 DEF AlarmKept
    <3> QED BY <3>2, <3>3
  <2> QED BY <1>4, <2>1, <2>2, <2>3 DEF AlarmsKept
<1>5. AlarmsKept(v)
      BY <1>2, <1>3, <1>4 DEF AfterChunk
<1> QED BY <1>5 DEF v, k

LEMMA OneKeeps ==
    ASSUME AlarmInv, [Next]_vars, UNCHANGED cache, NEW t \in Task, NEW k, AlarmsKept(k),
           task' = [task EXCEPT ![t] = k]
    PROVE  AlarmInv'
BY JobStep DEF AlarmInv, JobInv

LEMMA AlarmStep ==
    ASSUME AlarmInv, [Next]_vars
    PROVE  AlarmInv'
<1>1. CASE UNCHANGED <<cache, task>>
      BY <1>1, JobStep DEF AlarmInv, JobInv
<1>2. JobInv /\ JobInv' /\ \A t \in Task : IsTask(task[t]) /\ JobProgress(task[t]) /\ AlarmsKept(task[t])
      BY JobStep DEF AlarmInv, JobInv
<1>3. ASSUME NEW t \in Task, NEW r \in Run, process_config(t, r)
      PROVE  AlarmInv'
  <2> DEFINE pc == IF ChunksOf[r] = << >> THEN "dispatch" ELSE "lookup"
             k == [Idle EXCEPT !.run = r, !.pc = pc]
  <2>1. k.read = {} /\ k.merged = NoFacts
        BY DEF Idle
  <2>2. task' = [task EXCEPT ![t] = k] /\ UNCHANGED cache
        BY <1>3 DEF process_config
  <2> HIDE DEF k
  <2>3. AlarmsKept(k)
        BY <2>1, NoFactsAreFacts DEF AlarmsKept
  <2> QED BY <2>2, <2>3, OneKeeps
<1>4. ASSUME NEW t \in Task, cache_hit(t)
      PROVE  AlarmInv'
  <2> DEFINE c == cache[cache_key(vendor(t), text(t))]
  <2>1. c.valid => IsFacts(c.facts)
        BY <1>2, <1>4, Reading DEF AlarmInv, cache_hit, cache_key
  <2>2. /\ task[t].pc \in {"lookup", "generate"}
        /\ task' = [task EXCEPT ![t] = validated(task[t], c)] /\ UNCHANGED cache
        BY <1>4 DEF cache_hit
  <2> HIDE DEF c
  <2> QED BY <2>1, <2>2, ValidatedKeeps, OneKeeps
<1>5. ASSUME NEW t \in Task, generate(t)
      PROVE  AlarmInv'
  <2>1. PICK read \in Reads[<<text(t), task[t].context # {}>>], l \in Logprob, f \in Fidelity :
          LET c == Candidate(measured(read, l, f), read.valid, text(t), vendor(t), task[t].context)
          IN  /\ task' = [task EXCEPT ![t] = validated(task[t], c)]
              /\ \/ cache' = [cache EXCEPT ![cache_key(vendor(t), text(t))] = c]
                 \/ UNCHANGED cache
        BY <1>5 DEF generate
  <2> DEFINE facts == measured(read, l, f)
             c == Candidate(facts, read.valid, text(t), vendor(t), task[t].context)
  <2>2. task[t].pc = "generate" /\ vendor(t) \in Vendor /\ text(t) \in Text
        BY <1>2, <1>5, Reading DEF generate
  <2>3. DOMAIN read.facts = Field /\ (read.valid => IsFacts(read.facts))
        BY <2>2, ParsingConstants
  <2>4. \A x \in Field \ Signal : facts[x] = read.facts[x]
        BY <2>3 DEF measured, Signal
  <2>5. \A x \in Status \cup {"ssh_version", "community_strings", "ike_policies"} :
            x \in Field \ Signal
        BY DEF Field, Signal, Status, List, Token
  <2> HIDE DEF facts
  <2>6. c.facts = facts /\ c.valid = read.valid
        BY DEF Candidate
  <2>7. /\ task' = [task EXCEPT ![t] = validated(task[t], c)]
        /\ \/ cache' = [cache EXCEPT ![<<vendor(t), text(t)>>] = c]
           \/ UNCHANGED cache
        BY <2>1 DEF facts, cache_key
  <2> HIDE DEF c
  <2>8. c.valid => IsFacts(c.facts)
        BY <2>3, <2>4, <2>5, <2>6 DEF IsFacts
  <2>9. /\ cache' = [p \in Vendor \X Text |-> cache'[p]]
        /\ \A p \in Vendor \X Text : cache'[p] # Nothing /\ cache'[p].valid => IsFacts(cache'[p].facts)
        BY <2>2, <2>7, <2>8 DEF AlarmInv
  <2>10. AlarmsKept(validated(task[t], c))
        BY <2>2, <2>8, ValidatedKeeps
  <2> QED BY <1>2, <2>7, <2>9, <2>10 DEF AlarmInv, JobInv
<1>6. ASSUME NEW t \in Task,
             \/ retrieve(t) \/ generate_fails(t) \/ dispatch_unknown_block(t)
             \/ submit(t) \/ review(t) \/ crash(t)
      PROVE  AlarmInv'
  <2>1. UNCHANGED cache /\ \A s \in Task \ {t} : task'[s] = task[s]
        BY <1>2, <1>6 DEF retrieve, generate_fails, dispatch_unknown_block, submit, review, crash, JobInv
  <2>2. /\ task'[t].read = task[t].read /\ task'[t].merged = task[t].merged
        /\ task'[t].parsed = task[t].parsed /\ task'[t].conflicts = task[t].conflicts
    <3>1. CASE generate_fails(t)
          BY <1>2, <3>1, UnreadableProgress DEF generate_fails, JobInv
    <3>2. CASE ~generate_fails(t)
          BY <1>2, <1>6, <3>2 DEF retrieve, dispatch_unknown_block, submit, review, crash,
                                  JobInv, IsTask, TaskField
    <3> QED BY <3>1, <3>2
  <2>3. AlarmsKept(task'[t])
        BY <1>2, <2>2, SameAlarms
  <2> QED BY <1>2, <2>1, <2>3 DEF AlarmInv
<1> QED BY <1>1, <1>3, <1>4, <1>5, <1>6 DEF Next, vars

\* An alarm of any chunk fails its control in the merged baseline, or is among the conflicts
\* of its field, however many chunks a file has, in whatever order, read or cached.
THEOREM AlarmsSurvive == Spec => []AlarmSurvives
<1>1. Init => AlarmInv
      BY InitAlarms
<1>2. AlarmInv /\ [Next]_vars => AlarmInv'
      BY AlarmStep
<1>3. AlarmInv => AlarmSurvives
      BY DEF AlarmInv, AlarmsKept, AlarmKept, AlarmSurvives
<1>4. QED
      BY <1>1, <1>2, <1>3, PTL DEF Spec

-----------------------------------------------------------------------------
(* Agreement. A count of common facts stands for the facts themselves.     *)

\* Where a fact comes from.
LEMMA LeafFacts ==
    ASSUME NEW x, NEW z
    PROVE  z \in leaf_facts(x) <=>
               \/ \E f \in Flag \cup Status \cup Token : ~is_unknown(f, x[f]) /\ z = <<f, x[f]>>
               \/ \E f \in List \ {"ike_policies"} : x[f] # Unset /\ \E item \in x[f] : z = <<f, item>>
               \/ \E p \in policies_of(x) : z = <<"policy_id", p.policy_id>>
               \/ \E p \in policies_of(x) : /\ p.encryption \notin {"NONE", "UNKNOWN"}
                                           /\ z = <<"encryption", p.encryption>>
<1>1. z \in scalar_facts(x) <=>
          \E f \in Flag \cup Status \cup Token : ~is_unknown(f, x[f]) /\ z = <<f, x[f]>>
      BY DEF scalar_facts
<1>2. z \in item_facts(x) <=>
          \E f \in List \ {"ike_policies"} : x[f] # Unset /\ \E item \in x[f] : z = <<f, item>>
      BY DEF item_facts
<1>3. z \in policy_facts(x) <=>
          \/ \E p \in policies_of(x) : z = <<"policy_id", p.policy_id>>
          \/ \E p \in policies_of(x) : /\ p.encryption \notin {"NONE", "UNKNOWN"}
                                      /\ z = <<"encryption", p.encryption>>
      BY DEF policy_facts
<1> QED BY <1>1, <1>2, <1>3 DEF leaf_facts

\* The alarms of facts that are all among another's.
LEMMA FactsCarryAlarms ==
    ASSUME NEW d, NEW m, IsFacts(d), IsFacts(m), leaf_facts(d) \subseteq leaf_facts(m)
    PROVE  Alarms(d) \subseteq Failing(Filled(m))
<1>1. ASSUME NEW f \in {"telnet", "http_server", "password_encryption", "ssh_version"}, ~is_unknown(f, d[f])
      PROVE  m[f] = d[f]
  <2>1. f \in Flag \cup Status \cup Token
        BY DEF Flag, Status, Token
  <2>2. <<f, d[f]>> \in leaf_facts(d)
        BY <1>1, <2>1, LeafFacts
  <2>3. <<f, d[f]>> \in leaf_facts(m)
        BY <2>2
  <2> QED BY <2>3, LeafFacts DEF List
<1>2. ASSUME d["community_strings"] # Unset, NEW s \in d["community_strings"]
      PROVE  m["community_strings"] # Unset /\ s \in m["community_strings"]
  <2>1. <<"community_strings", s>> \in leaf_facts(d)
        BY <1>2, LeafFacts DEF List
  <2>2. <<"community_strings", s>> \in leaf_facts(m)
        BY <2>1
  <2> QED BY <2>2, LeafFacts DEF Flag, Status, Token
<1>3. ASSUME d["ike_policies"] # Unset, NEW p \in d["ike_policies"], p.encryption \in Weak
      PROVE  m["ike_policies"] # Unset /\ \E q \in m["ike_policies"] : q.encryption \in Weak
  <2>1. <<"encryption", p.encryption>> \in leaf_facts(d)
        BY <1>3, LeafFacts DEF Weak, policies_of
  <2>2. <<"encryption", p.encryption>> \in leaf_facts(m)
        BY <2>1
  <2>3. \E q \in policies_of(m) : p.encryption = q.encryption
        BY <2>2, LeafFacts DEF Flag, Status, Token, List
  <2> QED BY <1>3, <2>3 DEF policies_of
<1>4. ASSUME NEW id \in Alarms(d) PROVE id \in Failing(Filled(m))
  <2>1. id \in Alarming /\ id \in Failing(Filled(d))
        BY DEF Alarms
  <2>2. CASE id \in {"1.1.1", "1.1.2", "1.5.1", "1.7.1"}
        BY <1>1, <2>1, <2>2, UnsetIsNoValue, FailingAlarms
           DEF is_unknown, Status, Token, ProtocolStatus, Absent
  <2>3. CASE id = "1.2.2"
        BY <1>2, <2>1, <2>3, FailingAlarms
  <2>4. CASE id = "1.3.1"
        BY <1>3, <2>1, <2>4, FailingAlarms
  <2> QED BY <2>1, <2>2, <2>3, <2>4 DEF Alarming
<1> QED BY <1>4

\* What was filled in once has nothing to fill in.
LEMMA FilledFacts ==
    ASSUME NEW m, IsFacts(m)
    PROVE  IsFacts(Filled(m)) /\ Filled(Filled(m)) = Filled(m)
<1>1. \A f \in Field \ Signal : Filled(m)[f] = IF m[f] = Unset THEN DefaultBaseline[f] ELSE m[f]
      BY DEF Filled
<1>2. IsFacts(Filled(m))
  <2>1. \A f \in Status : DefaultBaseline[f] = "UNKNOWN" /\ f \in Field \ Signal
        BY DEF DefaultBaseline, Field, Flag, Status, List, Token, Signal
  <2>2. /\ DefaultBaseline["ssh_version"] = "none"
        /\ DefaultBaseline["community_strings"] = {} /\ DefaultBaseline["ike_policies"] = {}
        /\ {"ssh_version", "community_strings", "ike_policies"} \subseteq Field \ Signal
        BY DEF DefaultBaseline, Field, Flag, Status, List, Token, Signal
  <2> QED BY <1>1, <2>1, <2>2 DEF IsFacts, ProtocolStatus
<1>3. Filled(Filled(m)) = Filled(m)
      BY <1>1 DEF Filled
<1> QED BY <1>2, <1>3

\* A flag that is FALSE is among the facts, and carries its control.
LEMMA FactsCarryFlags ==
    ASSUME NEW d, NEW m, leaf_facts(d) \subseteq leaf_facts(Filled(m))
    PROVE  /\ d["login_banner"] = FALSE => "1.6.1" \in Failing(Filled(m))
           /\ d["syslog_enabled"] = FALSE => "1.8.1" \in Failing(Filled(m))
<1> DEFINE b == Filled(m)
<1>1. ASSUME NEW f \in Flag, d[f] = FALSE PROVE b[f] = FALSE
  <2>1. ~is_unknown(f, d[f])
        BY <1>1, UnsetIsNoValue DEF is_unknown, Flag, Status, Token
  <2>2. <<f, d[f]>> \in leaf_facts(d)
        BY <2>1, LeafFacts
  <2>3. <<f, d[f]>> \in leaf_facts(b)
        BY <2>2
  <2>4. b[f] = d[f]
    <3> HIDE DEF b
    <3> QED BY <2>3, LeafFacts DEF Flag, List
  <2> QED BY <1>1, <2>4
<1>2. "login_banner" \in Flag /\ "syslog_enabled" \in Flag
      BY DEF Flag
<1> HIDE DEF b
<1>3. \A c \in Control : c \in Failing(b) <=> evidence(c, b) # {}
      BY DEF Failing
<1>4. /\ evidence("1.6.1", b) = Once(~b.login_banner)
      /\ evidence("1.8.1", b) = Once(~remote_logging_configured(b))
      BY DEF evidence
<1>5. d["login_banner"] = FALSE => "1.6.1" \in Failing(b)
  <2> SUFFICES ASSUME d["login_banner"] = FALSE PROVE "1.6.1" \in Failing(b)
      OBVIOUS
  <2>1. b["login_banner"] = FALSE
        BY <1>1, <1>2
  <2> QED BY <2>1, <1>3, <1>4 DEF Once, Control
<1>6. d["syslog_enabled"] = FALSE => "1.8.1" \in Failing(b)
  <2> SUFFICES ASSUME d["syslog_enabled"] = FALSE PROVE "1.8.1" \in Failing(b)
      OBVIOUS
  <2>1. b["syslog_enabled"] = FALSE
        BY <1>1, <1>2
  <2> QED BY <2>1, <1>3, <1>4 DEF Once, Control, remote_logging_configured
<1> QED BY <1>5, <1>6 DEF b

AgreementInv ==
    \A t \in Task : task[t].pc = "submitted" =>
        /\ task[t].run \in Run
        /\ task[t].agreement = compute_agreement(Filled(task[t].merged), Deterministic[task[t].run])

LEMMA AgreementStep ==
    ASSUME JobInv, AgreementInv, [Next]_vars
    PROVE  AgreementInv'
<1>1. CASE UNCHANGED task
      BY <1>1 DEF AgreementInv
<1>2. \A t \in Task : IsTask(task[t]) /\ JobProgress(task[t])
      BY DEF JobInv
<1>3. ASSUME NEW t \in Task, NEW k, task' = [task EXCEPT ![t] = k], k.pc # "submitted"
      PROVE  AgreementInv'
      BY <1>3 DEF AgreementInv, JobInv
<1>4. ASSUME NEW t \in Task, submit(t)
      PROVE  AgreementInv'
  <2> DEFINE agreed == compute_agreement(Filled(task[t].merged), Deterministic[task[t].run])
             k == [task[t] EXCEPT !.pc = "submitted", !.agreement = agreed]
  <2>1. task' = [task EXCEPT ![t] = k] /\ task[t].run \in Run
        BY <1>2, <1>4 DEF JobInv, JobProgress, submit
  <2> HIDE DEF agreed
  <2>2. k.run = task[t].run /\ k.merged = task[t].merged /\ k.agreement = agreed
        BY <1>2 DEF IsTask, TaskField
  <2> HIDE DEF k
  <2>3. task'[t] = k /\ \A s \in Task \ {t} : task'[s] = task[s]
        BY <2>1 DEF JobInv
  <2> QED BY <2>1, <2>2, <2>3 DEF AgreementInv, agreed
<1>5. ASSUME NEW t \in Task,
             \/ \E r \in Run : process_config(t, r)
             \/ cache_hit(t) \/ generate_fails(t) \/ generate(t)
      PROVE  AgreementInv'
  <2>1. CASE \E r \in Run : process_config(t, r)
    <3>1. PICK r : task' = [task EXCEPT ![t] = [Idle EXCEPT !.run = r,
                         !.pc = IF ChunksOf[r] = << >> THEN "dispatch" ELSE "lookup"]]
          BY <2>1 DEF process_config
    <3> DEFINE k == [Idle EXCEPT !.run = r,
                        !.pc = IF ChunksOf[r] = << >> THEN "dispatch" ELSE "lookup"]
    <3>2. k.pc # "submitted"
          BY DEF Idle
    <3> HIDE DEF k
    <3>3. task' = [task EXCEPT ![t] = k]
          BY <3>1 DEF k
    <3> QED BY <1>3, <3>2, <3>3
  <2>2. CASE cache_hit(t) \/ generate(t)
    <3>1. PICK c : task' = [task EXCEPT ![t] = validated(task[t], c)]
          BY <2>2 DEF cache_hit, generate
    <3>2. validated(task[t], c).pc \in {"lookup", "dispatch"}
          BY <1>2, <2>2, ValidatedProgress DEF AfterChunk, cache_hit, generate
    <3> QED BY <1>3, <3>1, <3>2
  <2>3. CASE generate_fails(t)
        BY <1>2, <1>3, <2>3, UnreadableProgress DEF generate_fails
  <2> QED BY <1>5, <2>1, <2>2, <2>3
<1>6. ASSUME NEW t \in Task, retrieve(t) \/ dispatch_unknown_block(t) \/ review(t) \/ crash(t)
      PROVE  AgreementInv'
  <2>1. task'[t].pc # "submitted" /\ \A s \in Task \ {t} : task'[s] = task[s]
        BY <1>2, <1>6 DEF retrieve, dispatch_unknown_block, review, crash, JobInv, IsTask, TaskField, Over
  <2> QED BY <2>1 DEF AgreementInv
<1> QED BY <1>1, <1>4, <1>5, <1>6 DEF Next, vars

\* When the templates agree on all they found, no control they report is missing.
THEOREM FullAgreementHoldsAlarms == Spec => []FullAgreementHidesNothing
<1>1. Init => AlarmInv /\ AgreementInv
      BY InitAlarms DEF Init, AgreementInv, Idle
<1>2. AlarmInv /\ AgreementInv /\ [Next]_vars => (AlarmInv /\ AgreementInv)'
      BY AlarmStep, AgreementStep DEF AlarmInv
<1>3. AlarmInv /\ AgreementInv => FullAgreementHidesNothing
  <2> SUFFICES ASSUME AlarmInv, AgreementInv, NEW t \in Task, task[t].pc = "submitted",
                      ~(task[t].agreement.agreed < task[t].agreement.compared)
               PROVE  Reported(Deterministic[task[t].run]) \subseteq Failing(Filled(task[t].merged))
      BY DEF FullAgreementHidesNothing
  <2> DEFINE D == leaf_facts(Deterministic[task[t].run])
             M == leaf_facts(Filled(task[t].merged))
  <2>1. task[t].run \in Run /\ IsFacts(task[t].merged)
        BY DEF AlarmInv, AlarmsKept, AgreementInv
  <2>2. IsFacts(Deterministic[task[t].run]) /\ IsFiniteSet(D)
        BY <2>1, ParsingConstants
  <2>3. task[t].agreement.compared = Cardinality(D) /\ task[t].agreement.agreed = Cardinality(D \cap M)
    <3>1. task[t].agreement = compute_agreement(Filled(task[t].merged), Deterministic[task[t].run])
          BY DEF AgreementInv
    <3>2. /\ compute_agreement(Filled(task[t].merged), Deterministic[task[t].run]).compared = Cardinality(D)
          /\ compute_agreement(Filled(task[t].merged), Deterministic[task[t].run]).agreed = Cardinality(D \cap M)
          BY DEF compute_agreement
    <3> QED BY <3>1, <3>2
  <2> HIDE DEF D, M
  <2>4. /\ Cardinality(D) \in Nat /\ Cardinality(D \cap M) \in Nat
        /\ Cardinality(D \cap M) = Cardinality(D) => D \cap M = D
        /\ Cardinality(D \cap M) <= Cardinality(D)
        BY <2>2, FS_Subset, FS_CardinalityType
  <2>5. D \subseteq M
        BY <2>3, <2>4
  <2>6. /\ IsFacts(Filled(task[t].merged))
        /\ Filled(Filled(task[t].merged)) = Filled(task[t].merged)
        BY <2>1, FilledFacts
  <2>7. D \subseteq M => Alarms(Deterministic[task[t].run]) \subseteq
                             Failing(Filled(Filled(task[t].merged)))
        BY <2>2, <2>6, FactsCarryAlarms DEF D, M
  <2>8. D \subseteq M =>
            /\ Deterministic[task[t].run]["login_banner"] = FALSE =>
                   "1.6.1" \in Failing(Filled(task[t].merged))
            /\ Deterministic[task[t].run]["syslog_enabled"] = FALSE =>
                   "1.8.1" \in Failing(Filled(task[t].merged))
        BY FactsCarryFlags DEF D, M
  <2> QED BY <2>5, <2>6, <2>7, <2>8 DEF Reported
<1>4. QED
      BY <1>1, <1>2, <1>3, PTL DEF Spec

-----------------------------------------------------------------------------
(* The two stores of the Learning service.                                 *)

MapInv ==
    /\ queue = [b \in Block |-> queue[b]] /\ mapping = [b \in Block |-> mapping[b]]
    /\ admin \in [Admin -> [pc : {"idle", "store", "mark"}, block : Block \cup {Nothing},
                           vendor : Vendor \cup {Nothing}]]
    /\ \A a \in Admin : /\ admin[a].pc # "idle" => admin[a].block \in Block /\ admin[a].vendor \in Vendor
                        /\ admin[a].pc = "mark" => mapping[admin[a].block] # Nothing
    /\ MappedIsStored

LEMMA MapStep ==
    ASSUME MapInv, [Next]_vars
    PROVE  MapInv'
<1>1. CASE UNCHANGED <<queue, mapping, admin>>
      BY <1>1 DEF MapInv, MappedIsStored
<1>2. ASSUME NEW b \in Block, receive_unknown_block(b) PROVE MapInv'
      BY <1>2 DEF MapInv, MappedIsStored, receive_unknown_block
<1>3. ASSUME NEW a \in Admin, NEW b \in Block, NEW v \in Vendor, get_learning_queue(a, b, v)
      PROVE  MapInv'
      BY <1>3 DEF MapInv, MappedIsStored, get_learning_queue
<1>4. ASSUME NEW a \in Admin, submit_learning_map(a) PROVE MapInv'
      BY <1>4, LearningConstants DEF MapInv, MappedIsStored, submit_learning_map
<1>5. ASSUME NEW a \in Admin, mark_mapped(a) PROVE MapInv'
      BY <1>5 DEF MapInv, MappedIsStored, mark_mapped, Asleep
<1>6. ASSUME NEW a \in Admin, map_fails(a) PROVE MapInv'
      BY <1>6 DEF MapInv, MappedIsStored, map_fails, Asleep
<1> QED BY <1>1, <1>2, <1>3, <1>4, <1>5, <1>6
        DEF Next, vars, learning_vars, LearningNext, block_lost, process_config, cache_hit,
            retrieve, generate_fails, generate, dispatch_unknown_block, submit, review, crash

\* No block is off the queue without a mapping that can be retrieved.
THEOREM MappedBlocksAreStored == Spec => []MappedIsStored
<1>1. Init => MapInv
  <2> SUFFICES ASSUME Init PROVE MapInv
      OBVIOUS
  <2>1. queue = [b \in Block |-> Nothing] /\ mapping = [b \in Block |-> Nothing]
        BY DEF Init, LearningInit
  <2>2. admin = [a \in Admin |-> [pc |-> "idle", block |-> Nothing, vendor |-> Nothing]]
        BY DEF Init, LearningInit, Asleep
  <2>3. MappedIsStored
        BY <2>1, LearningConstants DEF MappedIsStored
  <2> QED BY <2>1, <2>2, <2>3 DEF MapInv
<1>2. MapInv /\ [Next]_vars => MapInv'
      BY MapStep
<1>3. MapInv => MappedIsStored
      BY DEF MapInv
<1>4. QED
      BY <1>1, <1>2, <1>3, PTL DEF Spec

=============================================================================
