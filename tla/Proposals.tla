------------------------------ MODULE Proposals ------------------------------
(***************************************************************************)
(* Policy change proposals (internal/improvement/service.go): their        *)
(* decisions, the approvals and metrics they cite, and garbage collection  *)
(* of the runs those belong to (internal/store/gc.go).  SubmitProposal and *)
(* GCRuns read outside the transaction that writes; every other operation  *)
(* is one transaction.  Every run here has ended, with one approval of its *)
(* graph version, and one anchor for its metric.                           *)
(***************************************************************************)
EXTENDS Naturals

CONSTANTS
  Proposals, PastRuns,
  Version,       \* target version of a proposal, graph version of a run
  Granted        \* runs whose approval was granted and has not expired at first

ASSUME ProposalsAssumption == Granted \subseteq PastRuns

VARIABLES
  proposal,   \* the rows
  submitting, \* SubmitProposal calls that read their proposal as a draft
  approvals,  \* runs whose approval row exists
  expired,    \* approvals that have expired
  metrics,    \* runs whose anchor has its metric
  anchors,    \* runs whose anchor exists
  ended,      \* run rows
  candidates  \* what gcCandidates listed

propVars == <<proposal, submitting, approvals, expired, metrics, anchors, ended, candidates>>

NoProposal == [status |-> "none", approval |-> {}, cites |-> {}]
Decided == {"approved", "rejected", "superseded"}

ProposalsTypeOK ==
  /\ proposal \in [Proposals -> [status : Decided \cup {"none", "draft", "proposed"},
                                 approval : SUBSET PastRuns, cites : SUBSET PastRuns]]
  /\ submitting \subseteq Proposals
  /\ approvals \subseteq PastRuns /\ expired \subseteq PastRuns
  /\ metrics \subseteq PastRuns /\ anchors \subseteq PastRuns
  /\ ended \subseteq PastRuns /\ candidates \subseteq PastRuns

ProposalsInit ==
  /\ proposal = [p \in Proposals |-> NoProposal]
  /\ submitting = {}
  /\ approvals = PastRuns /\ expired = {}
  /\ metrics = {} /\ anchors = PastRuns
  /\ ended = PastRuns /\ candidates = {}

Runs0 == <<approvals, expired, metrics, anchors, ended, candidates>>

\* CreateProposal, as a draft or already proposed.
CreateProposal(p) ==
  /\ proposal[p].status = "none"
  /\ \E s \in {"draft", "proposed"} : proposal' = [proposal EXCEPT ![p].status = s]
  /\ UNCHANGED <<submitting, Runs0>>

ReadDraft(p) ==
  /\ proposal[p].status = "draft" /\ p \notin submitting
  /\ submitting' = submitting \cup {p}
  /\ UNCHANGED <<proposal, Runs0>>

\* Mutant of SubmitRead: the update goes by the id alone.
SubmitStale(p) ==
  /\ p \in submitting
  /\ submitting' = submitting \ {p}
  /\ proposal' = [proposal EXCEPT ![p].status = "proposed"]
  /\ UNCHANGED Runs0

\* UPDATE ... WHERE id = ? AND status = 'draft'
SubmitRead(p) ==
  /\ p \in submitting
  /\ submitting' = submitting \ {p}
  /\ proposal' = IF proposal[p].status = "draft"
                 THEN [proposal EXCEPT ![p].status = "proposed"] ELSE proposal
  /\ UNCHANGED Runs0

\* ApproveProposal: the approval exists, grants, is for the target version
\* and has not expired.
ApproveProposal(p, r) ==
  /\ proposal[p].status = "proposed"
  /\ r \in approvals \cap Granted /\ Version[r] = Version[p] /\ r \notin expired
  /\ proposal' = [proposal EXCEPT ![p].status = "approved", ![p].approval = {r}]
  /\ UNCHANGED <<submitting, Runs0>>

RejectProposal(p) ==
  /\ proposal[p].status = "proposed"
  /\ proposal' = [proposal EXCEPT ![p].status = "rejected"]
  /\ UNCHANGED <<submitting, Runs0>>

\* SupersedeProposal: the other proposal exists, whatever its status.
SupersedeProposal(p, by) ==
  /\ p # by /\ proposal[by].status # "none"
  /\ proposal[p].status \in {"draft", "proposed"}
  /\ proposal' = [proposal EXCEPT ![p].status = "superseded"]
  /\ UNCHANGED <<submitting, Runs0>>

\* RecordMetric checks the anchor in its transaction.
RecordMetric(r) ==
  /\ r \in anchors /\ r \notin metrics
  /\ metrics' = metrics \cup {r}
  /\ UNCHANGED <<proposal, submitting, approvals, expired, anchors, ended, candidates>>

\* AssociateMetrics, to a proposal in any status.
AssociateMetric(p, r) ==
  /\ proposal[p].status # "none" /\ r \in metrics /\ r \notin proposal[p].cites
  /\ proposal' = [proposal EXCEPT ![p].cites = @ \cup {r}]
  /\ UNCHANGED <<submitting, Runs0>>

ApprovalExpires(r) ==
  /\ r \in approvals \ expired
  /\ expired' = expired \cup {r}
  /\ UNCHANGED <<proposal, submitting, approvals, metrics, anchors, ended, candidates>>

-----------------------------------------------------------------------------
(***************************************************************************)
(* GCRuns.                                                                 *)
(***************************************************************************)
CitedMetrics == UNION {proposal[p].cites : p \in Proposals}
CitedApprovals == UNION {proposal[p].approval : p \in Proposals}

\* gcCandidates: runs that have ended, long enough ago and not among the
\* newest, without those a proposal cites.
ListCandidates(old) ==
  /\ candidates = {} /\ old # {}
  /\ old \subseteq ended \ (CitedMetrics \cup CitedApprovals)
  /\ candidates' = old
  /\ UNCHANGED <<proposal, submitting, approvals, expired, metrics, anchors, ended>>

\* Mutant of Dangling: the store does not enforce its foreign keys.
Unenforced == FALSE

\* PRAGMA defer_foreign_keys: the references are checked at commit.
Dangling == CitedApprovals \cap candidates # {}

\* gcDeleteRuns: cited metrics stay, and so does the anchor of a metric that
\* stays; all or nothing.
DeleteCandidates ==
  LET gone == candidates \cap anchors
      kept == CitedMetrics
  IN  /\ candidates # {}
      /\ IF Dangling
         THEN UNCHANGED <<approvals, metrics, anchors, ended>>
         ELSE /\ approvals' = approvals \ candidates
              /\ metrics' = metrics \ (gone \ kept)
              /\ anchors' = anchors \ (gone \ (kept \cap metrics))
              /\ ended' = ended \ candidates
      /\ candidates' = {}
      /\ UNCHANGED <<proposal, submitting, expired>>

ProposalsNext ==
  \/ \E p \in Proposals : CreateProposal(p) \/ ReadDraft(p) \/ SubmitRead(p) \/ RejectProposal(p)
  \/ \E p, q \in Proposals : SupersedeProposal(p, q)
  \/ \E p \in Proposals, r \in PastRuns : ApproveProposal(p, r) \/ AssociateMetric(p, r)
  \/ \E r \in PastRuns : RecordMetric(r) \/ ApprovalExpires(r)
  \/ \E old \in SUBSET PastRuns : ListCandidates(old)
  \/ DeleteCandidates

ProposalsSpec == ProposalsInit /\ [][ProposalsNext]_propVars

-----------------------------------------------------------------------------
(***************************************************************************)
(* Properties.                                                             *)
(***************************************************************************)
\* What a proposal rests on is still there: an approved one has its granted
\* approval, of its own version, and cited metrics and their anchors exist,
\* although the runs they belong to are collected.
ProposalIsBacked ==
  \A p \in Proposals :
    /\ proposal[p].status = "approved" =>
         \E r \in approvals \cap Granted : proposal[p].approval = {r} /\ Version[r] = Version[p]
    /\ proposal[p].cites \subseteq metrics \cap anchors

\* A proposal is decided once: a submission or decision that read it earlier
\* does not bring it back.
DecisionIsFinal ==
  [][\A p \in Proposals : proposal[p].status \in Decided =>
       /\ proposal'[p].status = proposal[p].status
       /\ proposal'[p].approval = proposal[p].approval]_propVars
=============================================================================
