----------------------------- MODULE MCParsing -----------------------------
(***************************************************************************)
(* Two files that share a chunk; the vendor shows in the other one only.   *)
(* What the model makes of the shared chunk is right or blind to a         *)
(* community; the other chunk says otherwise about telnet, SSH and         *)
(* passwords, and what the model makes of it may not be a baseline.        *)
(***************************************************************************)
EXTENDS Parsing, TLC

CONSTANTS x, y, r1, r2, cisco, corp, public

Facts(known) == known @@ NoFacts
Read(valid, known) == [facts |-> Facts(known), valid |-> valid]

Open == ("telnet" :> "ENABLED") @@ ("ssh_version" :> "1") @@ ("community_strings" :> {public})
            @@ ("parsing_confidence" :> 65)
Missed == ("telnet" :> "ENABLED") @@ ("password_encryption" :> "ENABLED") @@ ("parsing_confidence" :> 65)
Closed == ("telnet" :> "DISABLED") @@ ("ssh_version" :> "2") @@ ("community_strings" :> {corp})
            @@ ("password_encryption" :> "DISABLED") @@ ("login_banner" :> TRUE)
            @@ ("parsing_confidence" :> 65)
Sure == ("telnet" :> "UNKNOWN") @@ ("password_encryption" :> "ENABLED")
            @@ ("parsing_confidence" :> 95)

MCReads ==
    (<<x, FALSE>> :> {Read(TRUE, Open), Read(TRUE, Missed)})
        @@ (<<x, TRUE>> :> {Read(TRUE, Open)})
        @@ (<<y, FALSE>> :> {Read(TRUE, Closed), Read(FALSE, Sure)})
        @@ (<<y, TRUE>> :> {Read(TRUE, Sure)})

MCRun == {r1, r2}
MCChunksOf == (r1 :> <<y, x>>) @@ (r2 :> <<x>>)
MCBlock == {<<r1, 1>>, <<r1, 2>>, <<r2, 1>>}
MCTextOf == [b \in MCBlock |-> MCChunksOf[b[1]][b[2]]]
MCVendor == {cisco, "unknown"}
MCVendorOf == (r1 :> cisco) @@ (r2 :> "unknown")
MCDeterministic ==
    (r1 :> Facts(("telnet" :> "ENABLED") @@ ("community_strings" :> {public})
                     @@ ("login_banner" :> FALSE) @@ ("syslog_enabled" :> FALSE)))
        @@ (r2 :> NoFacts)

\* The chunks are far from each other, but for what they share.
MCDistance == [p \in {x, y} \X {x, y} |-> IF p[1] = p[2] THEN 50 ELSE 90]
MCOverlap == [p \in {x, y} \X {x, y} |-> IF p[1] = p[2] THEN 60 ELSE 10]

\* No signal, the threshold, and what is just below it.
MCLogprob == {Unset, -51}
MCFidelity == {69, 70}

TaskSymmetry == Permutations(Task)

=============================================================================
