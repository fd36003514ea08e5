------------------------------ MODULE Records -------------------------------
(***************************************************************************)
(* The fill ledger, the tenant store, the requests of the trader product,  *)
(* the evidence packs, the offline loop, the uploads and the guided reviews. *)
(* They share no state: a behaviour picks one of them at its beginning, the *)
(* others rest.                                                            *)
(***************************************************************************)
EXTENDS FillLedger, TenantStore, TraderService, EvidencePack, AgentLoop, Intake, ReviewPackage

VARIABLE keeper

recordsVars == <<keeper, vars, tenantVars, traderVars, packVars, loopVars, intakeVars, reviewVars>>

Ordered(a, b) ==
    \/ a.precision < b.precision
    \/ a.precision = b.precision /\ Stamp(a) <= Stamp(b)

RecordsInit ==
    /\ keeper \in {"ledger", "tenants", "trader", "packs", "loops", "uploads", "reviews"}
    /\ keeper # "ledger" => rows = << >> /\ enforce_t1 = FALSE
    /\ Init
    \* The rows are sorted before they are booked, and their order decides between
    \* equal timestamps only: of four rows, one order stands for the others.
    /\ Len(rows) = MaxRows => \A i \in 1 .. MaxRows - 1 : Ordered(rows[i], rows[i + 1])
    \* Whether shorts are allowed is a question of the rows that declare them.
    /\ allow_shorts => \E i \in DOMAIN rows : IsShortOpen(rows[i]) \/ IsShortClose(rows[i])
    /\ TenantInit /\ TraderInit /\ PackInit /\ LoopInit /\ IntakeInit /\ ReviewInit
    /\ keeper # "tenants" => engine = "sqlite" /\ \A u \in Tenant : ~Known(u)
    /\ keeper # "trader" => ~known
    /\ keeper # "reviews" => sidecar = "none"

Rests(name, vs) == IF keeper = name THEN TRUE ELSE UNCHANGED vs

RecordsNext ==
    /\ UNCHANGED keeper
    /\ Rests("ledger", vars) /\ Rests("tenants", tenantVars) /\ Rests("trader", traderVars)
    /\ Rests("packs", packVars) /\ Rests("loops", loopVars) /\ Rests("uploads", intakeVars)
    /\ Rests("reviews", reviewVars)
    /\ \/ keeper = "ledger" /\ Next
       \/ keeper = "tenants" /\ TenantNext
       \/ keeper = "trader" /\ TraderNext
       \/ keeper = "packs" /\ PackNext
       \/ keeper = "loops" /\ LoopNext
       \/ keeper = "uploads" /\ IntakeNext
       \/ keeper = "reviews" /\ ReviewNext

RecordsSpec == RecordsInit /\ [][RecordsNext]_recordsVars

\* Shape of the state of the component that moves, as its module says it.
RecordsTypeOK ==
    /\ keeper = "ledger"  => TypeOK
    /\ keeper = "tenants" => TenantTypeOK
    /\ keeper = "trader"  => TraderTypeOK
    /\ keeper = "packs"   => PackTypeOK
    /\ keeper = "loops"   => LoopTypeOK
    /\ keeper = "uploads" => IntakeTypeOK
    /\ keeper = "reviews" => ReviewTypeOK
=============================================================================
