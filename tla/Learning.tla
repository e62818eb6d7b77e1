------------------------------ MODULE Learning ------------------------------
(***************************************************************************)
(* The Learning service: blocks the parser could not read wait in          *)
(* learning_queue (db.py, unknown_handler.py) until an admin maps them,    *)
(* and the confirmed mappings in ChromaDB are what later parses are        *)
(* prompted with (main.py, and rag.py of the parser).                      *)
(***************************************************************************)
EXTENDS Naturals

CONSTANTS
    Block,      \* block_id: the run and the index of a chunk
    TextOf,     \* the text of the chunk, by block
    Text,       \* the texts of chunks
    Vendor,     \* vendor and OS of a device, "unknown" among them
    Distance,   \* between a mapping made for the first text and the second, in hundredths
    Overlap,    \* the share of its CLI pattern's tokens in the second, in hundredths
    Admin,      \* requests of admins
    Nothing     \* NULL

ASSUME LearningConstants ==
    /\ TextOf \in [Block -> Text]
    /\ Distance \in [Text \X Text -> Nat] /\ Overlap \in [Text \X Text -> Nat]
    /\ "unknown" \in Vendor /\ Nothing \notin Vendor
    /\ Nothing \notin {"PENDING", "MAPPED"}

VARIABLES
    sent,     \* learning.receive_unknown_block tasks in the broker
    queue,    \* learning_queue: the status of a block, or Nothing
    mapping,  \* network_mappings in ChromaDB: the vendor a block's mapping is tagged with
    admin     \* POST /learning/map requests

learning_vars == <<sent, queue, mapping, admin>>

Asleep == [pc |-> "idle", block |-> Nothing, vendor |-> Nothing]

LearningInit ==
    /\ sent = {}
    /\ queue = [b \in Block |-> Nothing]
    /\ mapping = [b \in Block |-> Nothing]
    /\ admin = [a \in Admin |-> Asleep]

-----------------------------------------------------------------------------
(* The queue.                                                              *)

\* enqueue_block: a block that is queued already keeps its status.
receive_unknown_block(b) ==
    /\ b \in sent
    /\ sent' = sent \ {b}
    /\ queue' = [queue EXCEPT ![b] = IF @ = Nothing THEN "PENDING" ELSE @]
    /\ UNCHANGED <<mapping, admin>>

\* The task raises or its worker dies after it was acknowledged.
block_lost(b) ==
    /\ b \in sent
    /\ sent' = sent \ {b}
    /\ UNCHANGED <<queue, mapping, admin>>

-----------------------------------------------------------------------------
(* POST /learning/map: ChromaDB first, the queue second.                   *)

\* An admin picks a block of GET /learning/queue; the page asks for a vendor, or none.
get_learning_queue(a, b, v) ==
    /\ admin[a].pc = "idle" /\ queue[b] = "PENDING"
    /\ admin' = [admin EXCEPT ![a] = [pc |-> "store", block |-> b, vendor |-> v]]
    /\ UNCHANGED <<sent, queue, mapping>>

\* The upsert by block_id.
submit_learning_map(a) ==
    /\ admin[a].pc = "store"
    /\ mapping' = [mapping EXCEPT ![admin[a].block] = admin[a].vendor]
    /\ admin' = [admin EXCEPT ![a].pc = "mark"]
    /\ UNCHANGED <<sent, queue>>

mark_mapped(a) ==
    /\ admin[a].pc = "mark"
    /\ queue' = [queue EXCEPT ![admin[a].block] = IF @ = "PENDING" THEN "MAPPED" ELSE @]
    /\ admin' = [admin EXCEPT ![a] = Asleep]
    /\ UNCHANGED <<sent, mapping>>

\* MUTANT: a mapping that cannot be stored is not reported.
goes_on(a) ==
    /\ admin[a].pc = "store"
    /\ admin' = [admin EXCEPT ![a].pc = "mark"]
    /\ UNCHANGED <<sent, queue, mapping>>

\* ChromaDB or the database is unavailable, or the service dies.
map_fails(a) ==
    /\ admin[a].pc # "idle"
    /\ admin' = [admin EXCEPT ![a] = Asleep]
    /\ UNCHANGED <<sent, queue, mapping>>

-----------------------------------------------------------------------------
(* POST /learning/search, graded by the parser.                            *)

CORRECT_MAX_DISTANCE == 40
AMBIGUOUS_MAX_DISTANCE == 80
PATTERN_OVERLAP_THRESHOLD == 60

trusted(b, x) ==
    LET d == Distance[<<TextOf[b], x>>]
    IN  \/ d <= CORRECT_MAX_DISTANCE
        \/ /\ d <= AMBIGUOUS_MAX_DISTANCE
           /\ Overlap[<<TextOf[b], x>>] >= PATTERN_OVERLAP_THRESHOLD

\* The mappings a chunk of this vendor is prompted with. (The cut to the nearest three is
\* left out: a prompt either has context or has not.)
retrieved(v, x) == {b \in Block : mapping[b] = v /\ trusted(b, x)}

LearningNext ==
    \/ \E b \in Block : receive_unknown_block(b) \/ block_lost(b)
    \/ \E a \in Admin, b \in Block, v \in Vendor : get_learning_queue(a, b, v)
    \/ \E a \in Admin : submit_learning_map(a) \/ mark_mapped(a) \/ map_fails(a)

\* A block is MAPPED only when its mapping can be retrieved, whichever of the two stores
\* fails or is written by another admin in between: otherwise it would be off the queue and
\* nobody would ever map it.
MappedIsStored == \A b \in Block : queue[b] = "MAPPED" => mapping[b] # Nothing

=============================================================================
