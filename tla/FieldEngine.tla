----------------------------- MODULE FieldEngine -----------------------------
(***************************************************************************)
(* The Field Engine and the shared Field Region of EK-KOR v2               *)
(* (src/ek-kor-public/rust/src/field.rs, records in types.rs).             *)
(*                                                                         *)
(* The region holds one slot per module id.  publish overwrites the        *)
(* caller's slot and ORs its bit into the shared update mask; sample       *)
(* reads a slot and applies the piecewise-linear decay; sample_neighbors   *)
(* forms the health-weighted mean over a neighbour list; gc clears slots   *)
(* older than a caller-chosen age.  Every call takes &mut or & of the      *)
(* region, so each call is one atomic step.                                *)
(*                                                                         *)
(* Data abstraction:                                                       *)
(*  - a Field keeps its Load component only; the other four components go *)
(*    through the same per-component loops and drive nothing;              *)
(*  - Fixed (I16F16) is an integer scaled by ONE = 2^FRAC;                 *)
(*  - the caller-supplied monotonic clock enters only through              *)
(*    now - timestamp (saturating), so a slot stores its age instead of    *)
(*    its timestamp, capped at AgeCap beyond which no caller tells ages    *)
(*    apart; an empty slot's age is never read.                            *)
(***************************************************************************)
EXTENDS Integers, FiniteSets, FiniteSetsExt

CONSTANTS
  Ids,         \* module ids (u8) that call publish; slot index == id
  Loads,       \* raw Fixed values a module publishes as its Load
  TAU,         \* FIELD_DECAY_TAU_US in clock units
  FRAC,        \* fractional bits of Fixed (16 for I16F16)
  SeqModulus,  \* 2^8: Field.sequence is a wrapping u8
  GcAges       \* max_age_us values the gc owner passes

ASSUME Ids \subseteq 0..255
ASSUME TAU \in Nat \ {0} /\ FRAC \in Nat \ {0} /\ SeqModulus \in Nat \ {0}
ASSUME GcAges \subseteq Nat

MAX_MODULES == 256
INVALID_MODULE_ID == 0
ONE == 2^FRAC
Health == {"Unknown", "Alive", "Suspect", "Dead"}

\* sample refuses fields older than FIELD_DECAY_TAU_US * 5
Horizon == 5 * TAU
AgeCap == Max({Horizon} \cup GcAges) + 1

VARIABLES
  region,       \* FieldRegion.fields restricted to the slots of Ids
  updateFlags   \* FieldRegion.update_flags as the set of its set bits

\* struct FieldRegion; last_gc is written by gc and read by nothing.
feVars == <<region, updateFlags>>

Field == [load : Int, age : 0..AgeCap, source : 0..255, seq : 0..SeqModulus-1]

\* Field::new / Field::clear: components 0, timestamp 0, source invalid.
EmptyField == [load |-> 0, age |-> 0, source |-> INVALID_MODULE_ID, seq |-> 0]

----------------------------------------------------------------------------
(* Fixed-point helpers.  I16F16 multiply and divide truncate; all the      *)
(* operands here are non-negative, so truncation is floor (\div).          *)
(* Fixed::from_num of an f32 rounds to nearest.                            *)
FixMul(a, b) == (a * b) \div ONE
FixDiv(a, b) == (a * ONE) \div b
FromRatio(num, den) == (2 * num * ONE + den) \div (2 * den)

(* apply_decay: the four-segment factor, floor-clamped at zero.            *)
DecayFactor(t) ==
  LET f == CASE t < TAU     -> FromRatio(TAU - t, TAU)
             [] t < 2 * TAU -> FromRatio(2 * TAU - t, 2 * TAU)
             [] t < 3 * TAU -> FromRatio(3 * TAU - t, 4 * TAU)
             [] OTHER       -> 0
  IN  IF f < 0 THEN 0 ELSE f

(* sample: NotFound for a never-published or reclaimed slot, FieldExpired  *)
(* beyond the horizon, otherwise the decayed copy.                         *)
SampleOk(m) == region[m].source # INVALID_MODULE_ID /\ region[m].age <= Horizon
SampleVal(m) == FixMul(region[m].load, DecayFactor(region[m].age))

(* sample_neighbors: the weight of a neighbour by health.                  *)
HealthWeight(h) == CASE h = "Alive"   -> ONE
                     [] h = "Suspect" -> FromRatio(1, 2)
                     [] OTHER         -> 0

(* The neighbours that add to the weighted sum: not Dead, sampled without  *)
(* error, and of positive weight.  nbrs maps neighbour id to health.       *)
Contributors(nbrs) ==
  {n \in DOMAIN nbrs : /\ nbrs[n] # "Dead"
                       /\ SampleOk(n)
                       /\ HealthWeight(nbrs[n]) > 0}

(* Mutant: the weight of a listed neighbour is added before its sample is *)
(* known to succeed (total_weight += outside the `if let Ok`).            *)
TotalWeight_CountsFailedSamples(nbrs) ==
  MapThenSumSet(LAMBDA n : HealthWeight(nbrs[n]),
                {n \in DOMAIN nbrs : nbrs[n] # "Dead"})

WeightedSum(nbrs) ==
  MapThenSumSet(LAMBDA n : FixMul(SampleVal(n), HealthWeight(nbrs[n])),
                Contributors(nbrs))
TotalWeight(nbrs) ==
  MapThenSumSet(LAMBDA n : HealthWeight(nbrs[n]), Contributors(nbrs))

SampleNeighbors(nbrs) ==
  IF TotalWeight(nbrs) > 0
  THEN FixDiv(WeightedSum(nbrs), TotalWeight(nbrs))
  ELSE 0

(* gradient: neighbour aggregate minus own value.                          *)
Gradient(myVal, aggregate) == aggregate - myVal

----------------------------------------------------------------------------
(* publish: rejected for an invalid or out-of-range id, otherwise the      *)
(* owner's slot is overwritten, the sequence wraps, and bit id % 32 is set.*)
PublishAccepted(m) == m < MAX_MODULES /\ m # INVALID_MODULE_ID

(* Mutant: the sequence is incremented without wrapping.                  *)
Publish_NoWrap(m, v) ==
  /\ PublishAccepted(m)
  /\ region' = [region EXCEPT ![m] = [load |-> v, age |-> 0, source |-> m,
                                      seq |-> @.seq + 1]]
  /\ updateFlags' = updateFlags \cup {m % 32}

Publish(m, v) ==
  /\ PublishAccepted(m)
  /\ region' = [region EXCEPT ![m] = [load   |-> v,
                                      age    |-> 0,
                                      source |-> m,
                                      seq    |-> (@.seq + 1) % SeqModulus]]
  /\ updateFlags' = updateFlags \cup {m % 32}

(* gc: every live slot older than maxAge is cleared; last_gc and the       *)
(* returned count are written for the caller only.                         *)
Gc(maxAge) ==
  /\ region' = [i \in DOMAIN region |->
                  IF region[i].source # INVALID_MODULE_ID /\ region[i].age > maxAge
                  THEN EmptyField ELSE region[i]]
  /\ UNCHANGED updateFlags

(* The clock advances one unit: every live field ages.                     *)
AdvanceClock ==
  /\ region' = [i \in DOMAIN region |->
                  IF region[i].source = INVALID_MODULE_ID THEN region[i]
                  ELSE [region[i] EXCEPT !.age = IF @ < AgeCap THEN @ + 1 ELSE @]]
  /\ UNCHANGED updateFlags

----------------------------------------------------------------------------
FEInit ==
  /\ region = [i \in Ids |-> EmptyField]
  /\ updateFlags = {}

FENext ==
  \/ \E m \in Ids, v \in Loads : Publish(m, v)
  \/ \E a \in GcAges : Gc(a)
  \/ AdvanceClock

FESpec == FEInit /\ [][FENext]_feVars

----------------------------------------------------------------------------
FETypeOK ==
  /\ region \in [Ids -> Field]
  /\ updateFlags \subseteq 0..31

(* The aggregate sample_neighbors returns is the health-weighted mean of   *)
(* the decayed neighbour samples, computed in Fixed: never above the exact *)
(* mean and less than three units of the last place below it, and zero     *)
(* exactly when no neighbour contributes -- for every neighbour list and   *)
(* health assignment over the fields the region can hold.                  *)
AggregateIsWeightedMean ==
  \A nbrs \in [Ids -> Health] :
    LET agg   == SampleNeighbors(nbrs)
        W     == MapThenSumSet(LAMBDA n : HealthWeight(nbrs[n]), Contributors(nbrs))
        exact == MapThenSumSet(LAMBDA n : SampleVal(n) * HealthWeight(nbrs[n]),
                               Contributors(nbrs))
    IN  IF W = 0 THEN agg = 0
        ELSE /\ agg * W <= exact
             /\ exact < (agg + 3) * W

(* The value sample returns for a field nobody republished never rises as  *)
(* the field ages (the decay is documented as an exponential).             *)
DecayNeverRises ==
  [][\A m \in Ids :
       (/\ region[m].source # INVALID_MODULE_ID
        /\ region'[m].source = region[m].source
        /\ region'[m].age > region[m].age
        /\ SampleOk(m)')
         => SampleVal(m)' <= SampleVal(m)]_feVars
=============================================================================
