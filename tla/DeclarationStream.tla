-------------------------- MODULE DeclarationStream --------------------------
(***************************************************************************)
(* A provider declares its current terms in a stream in which each record  *)
(* replaces the one before it: DECLARE with an effective interval and a    *)
(* body, or WITHDRAW.  The entry quantity domain, the position effect      *)
(* basis and the provider floors read their terms from such a stream, out  *)
(* of an inventory somebody captured.  Predecessors are named with their   *)
(* digest, modelled by the record's id.                                    *)
(*   An inventory is                                                       *)
(*     [records  |-> set of records,                                       *)
(*      coverage |-> what its source says of its completeness]             *)
(***************************************************************************)
EXTENDS Integers, FiniteSets, FiniteSetsExt

\* An effective_until that is None: later than every boundary.
Always == 1000

Within(from, until, t) == from <= t /\ t < until

NoPred == [kind |-> "ROOT"]
UnknownPred == [kind |-> "UNKNOWN"]
PredRecord(id) == [kind |-> "RECORD", id |-> id]

Ids(inv) == { r.id : r \in inv.records }
RecordOf(inv, id) == CHOOSE r \in inv.records : r.id = id
Named(inv) == { r \in inv.records : r.pred.kind = "RECORD" }

\* Supplied pairs of a record and its supplied predecessor.
ParentLinks(inv) == { <<r.id, r.pred.id>> : r \in { r \in Named(inv) : r.pred.id \in Ids(inv) } }

\* The transitive closure of the links: each record with all it descends from.
Descends(inv) ==
  LET links == ParentLinks(inv)
      Closed(set, a) == \A l \in links : l[1] \in set \cup {a} => l[2] \in set
  IN  { p \in Ids(inv) \X Ids(inv) :
          \A set \in SUBSET Ids(inv) : Closed(set, p[1]) => p[2] \in set }

\* What is declared to be absent.
Gaps(inv) ==
  LET c == inv.coverage
  IN  \/ c.missing # {}
      \/ c.omitted \/ c.truncated
      \/ c.start # "FROM_INCEPTION"
      \/ \E r \in inv.records : r.pred = UnknownPred

\* The checks of the stream that raise, whatever else is unknown.
Consistent(inv) ==
  LET c == inv.coverage
  IN  /\ c.missing \cap Ids(inv) = {}
      /\ \A r \in Named(inv) : r.pred.id \in Ids(inv) \cup c.missing
      /\ c.roots \subseteq Ids(inv) \cup c.missing
      /\ \A r \in inv.records : r.id \in c.roots <=> r.pred = NoPred
      /\ \A r \in inv.records : r.kind = "WITHDRAW" => r.pred # NoPred
      /\ \A r \in inv.records : <<r.id, r.id>> \notin Descends(inv)
      /\ c.revisions = "COMPLETE" => ~Gaps(inv)

\* Nothing of the inventory is observed after the boundary, nothing it contains
\* after the inventory itself, and no cutoff after its publication.
CausallyAdmissible(inv, at) ==
  LET c == inv.coverage
  IN  /\ inv.observed <= at
      /\ c.cutoff <= inv.observed
      /\ \A r \in inv.records : r.published <= inv.observed

Competing(inv) ==
  \/ Cardinality(inv.coverage.roots) > 1
  \/ \E l, m \in ParentLinks(inv) : l # m /\ l[2] = m[2]

\* A replacement that takes effect before what it replaces; and, where the owner
\* asks for it, one published before.
Backwards(inv) ==
  \E l \in ParentLinks(inv) : RecordOf(inv, l[1]).from < RecordOf(inv, l[2]).from
PublishedBackwards(inv) ==
  \E l \in ParentLinks(inv) : RecordOf(inv, l[1]).published < RecordOf(inv, l[2]).published

\* One root, no competing replacements, every other record on a supplied one:
\* the records form a chain.
FormsChain(inv) ==
  /\ \E r \in inv.records : r.pred = NoPred
  /\ ~Competing(inv)
  /\ \A r \in inv.records : r.pred = NoPred \/ (r.pred.kind = "RECORD" /\ r.pred.id \in Ids(inv))

\* The last record of the chain already in effect.
InEffect(inv, at) == { r \in inv.records : r.from <= at }
Current(inv, at) ==
  LET descends == Descends(inv)
  IN  { r \in InEffect(inv, at) : \A s \in InEffect(inv, at) : <<s.id, r.id>> \notin descends }

\* Declared in full, through the boundary, at which its economic period holds.
CoveredThrough(inv, at) ==
  LET c == inv.coverage
  IN  /\ c.declarations = "COMPLETE"
      /\ c.revisions = "COMPLETE"
      /\ c.cutoff = at
      /\ c.from <= at

\* The terms in force at the boundary, when nothing is unresolved about them.
Resolves(inv, at) ==
  /\ CoveredThrough(inv, at)
  /\ ~Gaps(inv)
  /\ inv.supported
  /\ ~Backwards(inv)
  /\ FormsChain(inv)
  /\ \E r \in Current(inv, at) : r.kind = "DECLARE" /\ Within(r.from, r.until, at)
InForce(inv, at) == CHOOSE r \in Current(inv, at) : TRUE

=============================================================================
