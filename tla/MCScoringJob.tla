----------------------------- MODULE MCScoringJob -----------------------------
(* The scoring job: how its recording reaches it (RecordingDoor), how long it *)
(* and a compile may take (JobTiming) and what they make, from the rubric to  *)
(* the report (SessionReport).  One of them moves in a behaviour: `part' says *)
(* which, the others stay in one initial state.                               *)
(* Replies the compiler accepts and one for each gate that refuses it, two    *)
(* scores a sample may have, and past sessions with ties and a broken streak. *)
EXTENDS JobTiming, Integers, FiniteSets

CONSTANTS
  Samples, Workers, Draws, Descriptions, Replies, Transcripts, DeliveryReplies, PastRows, Slots,
  Tabs, score_attempt_cap, MaxLosses, NoTake

VARIABLES
  part,
  order, task, main, awaited, jd, attempts, reply, rubric, stage, eligibility, content, report, rows,
  exists, status, runs, object, judged, stands, asked, told, losses

Making == INSTANCE SessionReport
Door == INSTANCE RecordingDoor WITH step <- stands

\* A dimension, as the schema of a reply has it.
Dimension ==
  [key : STRING, channel : {"content", "delivery"}, weight : Int,
   evidence : {"exact", "variant", "long", "invented", "null"}, license : {"jd", "profile"},
   cited : BOOLEAN, family : BOOLEAN, clean : BOOLEAN, probing : {"direct", "indirect"}]

ASSUME JudgeConstants == Samples \in Nat \ {0} /\ Draws \subseteq Nat
ASSUME RubricConstants ==
  /\ Replies \subseteq [dims : Seq(Dimension), bank : SUBSET STRING]
  /\ Descriptions \subseteq [foregrounds : BOOLEAN, profile : BOOLEAN]
ASSUME ReportConstants ==
  Slots \in Nat /\ DeliveryReplies \subseteq Seq([key : STRING, score : Nat])
\* A past row with a report has a score for each dimension its rubric may have, and no row
\* is marked "scored" before its report is saved.
ASSUME PastConstants ==
  /\ PastRows \subseteq [status : STRING, scores : Seq(Nat)]
  /\ \A past \in PastRows :
       IF past.scores = <<>> THEN past.status # "scored"
       ELSE \A r \in Replies : Len(r.dims) <= Len(past.scores)
ASSUME DoorConstants ==
  score_attempt_cap \in Nat \ {0} /\ MaxLosses \in Nat /\ NoTake \notin Tabs

makingVars == <<order, task, main, awaited, jd, attempts, reply, rubric, stage, eligibility,
                content, report, rows>>
doorVars == <<exists, status, runs, object, judged, stands, asked, told, losses>>
partsVars == <<part, vars, makingVars, doorVars>>

PartsInit ==
  /\ part \in {"clock", "making", "door"}
  /\ Init
  /\ Making!Init /\ (part # "making" => jd = [foregrounds |-> FALSE, profile |-> FALSE])
  /\ Door!Init

InMaking(A) == part = "making" /\ A /\ UNCHANGED <<part, vars, doorVars>>
InDoor(A) == part = "door" /\ A /\ UNCHANGED <<part, vars, makingVars>>

PartsNext ==
  \/ part = "clock" /\ Next /\ UNCHANGED <<part, makingVars, doorVars>>
  \/ InMaking(Making!Next)
  \/ InDoor(Door!Next)

\* The judge's threads run and are answered; an upload goes on, and somebody presses
\* Retry upload.
PartsSpec ==
  /\ PartsInit /\ [][PartsNext]_partsVars
  /\ WF_partsVars(InMaking(Making!Judging))
  /\ WF_partsVars(InMaking(Making!JudgeReturns)) /\ WF_partsVars(InMaking(Making!JudgeRaises))
  /\ \A t \in Tabs :
       WF_partsVars(InDoor(Door!uploadAndComplete(t))) /\ WF_partsVars(InDoor(Door!Advances(t)))

-----------------------------------------------------------------------------
Dim(key, channel, weight, evidence) ==
  [key |-> key, channel |-> channel, weight |-> weight, evidence |-> evidence,
   license |-> "jd", cited |-> TRUE, family |-> FALSE, clean |-> TRUE,
   probing |-> "direct"]

Craft(weight, evidence) == Dim("craft", "content", weight, evidence)
Clarity(weight) == [Dim("clarity", "content", weight, "exact") EXCEPT !.clean = FALSE]
Values(weight) == [Dim("values", "content", weight, "exact") EXCEPT !.family = TRUE]
Fit(weight) == [Dim("role-and-company-fit", "content", weight, "null") EXCEPT !.license = "profile"]
Pace(weight) == [Dim("pace", "delivery", weight, "invented") EXCEPT !.cited = FALSE]

Reply(dims) == [dims |-> dims, bank |-> {dims[i].key : i \in DOMAIN dims}]

MCReplies ==
  { Reply(<<Craft(400, "variant"), Values(300), Pace(300)>>),
    Reply(<<Craft(400, "exact"), Fit(100), Values(95), Pace(400)>>),
    Reply(<<Clarity(500), Pace(500)>>),
    Reply(<<Values(1000), Pace(0)>>),
    \* refused: weights, quote, two licensed by the profile, no delivery
    Reply(<<Craft(400, "exact"), Pace(400)>>),
    Reply(<<Craft(400, "long"), Values(300), Pace(300)>>),
    Reply(<<Fit(300), Fit(300), Pace(400)>>),
    Reply(<<Craft(1000, "exact")>>) }

MCDescriptions == [foregrounds : BOOLEAN, profile : {TRUE}]
                  \cup [foregrounds : {FALSE}, profile : {FALSE}]

MCTranscripts ==
  { [seconds |-> 300, turns |-> 9, words |-> 900],
    [seconds |-> 900, turns |-> 5, words |-> 599] }

MCDeliveryReplies ==
  { <<[key |-> "pace", score |-> 300]>>,
    <<[key |-> "pace", score |-> 290], [key |-> "pace", score |-> 480]>>,
    <<[key |-> "craft", score |-> 450]>> }

Unscored(past) == [status |-> past, scores |-> <<>>]
Past(past, scores) == [status |-> past, scores |-> scores]

MCPastRows ==
  { Unscored("planned"),
    Past("scored", <<290, 290, 450, 290>>), Past("scored", <<450, 300, 290, 420>>),
    Past("failed", <<290, 290, 450, 290>>) }

-----------------------------------------------------------------------------
(* What the run checks; each is stated with its part. *)
\* A rubric is faithful to the job description, and the report on it says one thing to
\* all its readers (SessionReport).
ReportReadsOne == Making!ReportReadsOne
\* A judge job ends as the loop it replaced would have (SessionReport).
JobEndsInOrder == Making!JobEndsInOrder
\* Governance keeps the emphasis of a rubric, and what the screens say of several
\* reports adds up (SessionReport).
NumbersAddUp == Making!NumbersAddUp
\* The recording that was judged is the one that is kept, whoever uploads meanwhile,
\* and every tab is told the truth (RecordingDoor).
RecordingIsKept == Door!EvidenceKept /\ Door!ToldTheTruth
\* The judging of an interview comes to an end, and an interview that somebody keeps
\* retrying is handed over (SessionReport, RecordingDoor).
NothingStalls == Making!JudgingEnds /\ Door!InterviewIsSent
=============================================================================
