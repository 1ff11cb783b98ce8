------------------------------ MODULE RoutePlan ------------------------------
(***************************************************************************)
(* internal/routing: the routes of a generation, built from the CIDR list  *)
(* and the two force lists, and the commands that edit those lists.  An    *)
(* address is a number of Bits bits; a prefix has `bits` leading bits.     *)
(* The networks of the two links are what the operator gave the wizard.    *)
(***************************************************************************)
EXTENDS Integers, FiniteSets, FiniteSetsExt

CONSTANTS
    Bits,               \* width of an address (32 in the code)
    Networks,           \* networks the wizard may be given for a link
    Imports,            \* CIDR files that may be imported, sets of entries
    MaxForced           \* bound: entries in a force list

\* The number of addresses under a prefix of the given length.
Span[bits \in 0..Bits] == IF bits = Bits THEN 1 ELSE 2 * Span[bits + 1]

Address == 0 .. Span[0] - 1

\* A CIDR as it is written: the address may have bits set behind the prefix.
Entry == [addr : Address, bits : 0..Bits]

Masked(p) == [p EXCEPT !.addr = (@ \div Span[p.bits]) * Span[p.bits]]
Prefix == {Masked(p) : p \in Entry}
Everything == [addr |-> 0, bits |-> 0]

Covers(p, a) == a \div Span[p.bits] = p.addr \div Span[p.bits]
Overlaps(p, q) == Covers(p, q.addr) \/ Covers(q, p.addr)

ASSUME LinksAssumption ==
    /\ Bits \in Nat \ {0}
    /\ Networks \subseteq Prefix
ASSUME InputAssumption ==
    /\ \A list \in Imports : list # {} /\ list \subseteq Entry
    /\ MaxForced \in Nat

VARIABLES
    localNet,               \* cfg.Local.Address, masked
    internationalNet,       \* cfg.International.Address, masked
    iran,                   \* the normalised CIDR list
    forceLocal,             \* cfg.Routing.ForceLocal
    forceInternational      \* cfg.Routing.ForceInternational

links == <<localNet, internationalNet>>
vars == <<links, iran, forceLocal, forceInternational>>

-----------------------------------------------------------------------------
(* prefixes.go *)

NormalizeAll(prefixes) == prefixes                                  \* mutant

\* From the widest prefix on, each one that no kept prefix covers is kept.
Normalize(prefixes) ==
    LET kept[n \in -1..Bits] ==
            IF n = -1 THEN {}
            ELSE LET wider == kept[n - 1] IN
                 wider \cup {p \in prefixes : /\ p.bits = n
                                              /\ \A q \in wider : ~Covers(q, p.addr)}
    IN kept[Bits]

Left(p) == [p EXCEPT !.bits = @ + 1]
Right(p) == [addr |-> p.addr + Span[p.bits + 1], bits |-> p.bits + 1]

\* What is left of a prefix: the halves that the exclusion does not reach, and
\* what is left of the half that it does.
Subtract(base, exclusion) ==
    LET rest[p \in Prefix] ==
            IF ~Overlaps(p, exclusion) THEN {p}
            ELSE IF exclusion.bits <= p.bits THEN {}
            ELSE rest[Left(p)] \cup rest[Right(p)]
    IN rest[base]

SubtractNothing(bases, exclusions) == Normalize(bases)              \* mutant

SubtractAll(bases, exclusions) ==
    LET Cut(exclusion, left) == UNION {Subtract(base, exclusion) : base \in left}
    IN Normalize(FoldSet(Cut, Normalize(bases), Normalize(exclusions)))

-----------------------------------------------------------------------------
(* plan.go *)

Route(kind, link, destinations) ==
    {[kind |-> kind, link |-> link, dst |-> p] : p \in destinations}

Connected == {localNet, internationalNet}

\* One route for each link: nothing refuses two links in one network.
ConnectedRoutes == Route("connected", "local", {localNet})
                       \cup Route("connected", "international", {internationalNet})

EffectiveLocal(list, local, international) ==
    Normalize(SubtractAll(list, international) \cup local)

TargetRoutesForcedConnected(list, local, international) ==          \* mutant
    ConnectedRoutes
        \cup Route("local", "local", EffectiveLocal(list, local, international) \ Connected)
        \cup Route("force-international", "international", Normalize(international))
        \cup Route("international-default", "international", {Everything})

\* The routes of the target table; connected networks keep their own.
TargetRoutes(list, local, international) ==
    ConnectedRoutes
        \cup Route("local", "local", EffectiveLocal(list, local, international) \ Connected)
        \cup Route("force-international", "international",
                   Normalize(international) \ Connected)
        \cup Route("international-default", "international", {Everything})

\* Every list is normalised when it is parsed.
Table == TargetRoutes(Normalize(iran), Normalize(forceLocal),
                      Normalize(forceInternational))

\* `ip -batch` refuses a second route for a destination.
Loads == \A r \in Table, s \in Table : r.dst = s.dst => r = s

\* The kernel's longest match.
Matching(a) == {r \in Table : Covers(r.dst, a)}
Best(a) == CHOOSE r \in Matching(a) : \A s \in Matching(a) : s.dst.bits <= r.dst.bits

-----------------------------------------------------------------------------
(* The commands that edit the lists *)

\* firstConflict: the force lists of a valid configuration do not overlap.
NoConflict(local, international) ==
    \A p \in local, q \in international : ~Overlaps(p, q)

Init ==
    /\ localNet \in Networks
    /\ internationalNet \in Networks
    /\ \E list \in Imports : iran = {Masked(e) : e \in list}
    /\ forceLocal = {}
    /\ forceInternational = {}

AddLocalAsTyped(e) ==                                               \* mutant
    /\ forceLocal' = forceLocal \cup {e}
    /\ Cardinality(forceLocal') <= MaxForced
    /\ NoConflict(forceLocal', forceInternational)
    /\ UNCHANGED <<links, iran, forceInternational>>

\* force local|international add: an entry for the prefix is there afterwards,
\* unless Validate refuses the result.
AddLocal(e) ==
    /\ forceLocal' = forceLocal \cup {Masked(e)}
    /\ Cardinality(forceLocal') <= MaxForced
    /\ NoConflict(forceLocal', forceInternational)
    /\ UNCHANGED <<links, iran, forceInternational>>

AddInternational(e) ==
    /\ forceInternational' = forceInternational \cup {Masked(e)}
    /\ Cardinality(forceInternational') <= MaxForced
    /\ NoConflict(forceLocal, forceInternational')
    /\ UNCHANGED <<links, iran, forceLocal>>

RemoveLocal(e) ==
    /\ Masked(e) \in forceLocal
    /\ forceLocal' = forceLocal \ {Masked(e)}
    /\ UNCHANGED <<links, iran, forceInternational>>

RemoveInternational(e) ==
    /\ Masked(e) \in forceInternational
    /\ forceInternational' = forceInternational \ {Masked(e)}
    /\ UNCHANGED <<links, iran, forceLocal>>

Import(list) ==
    /\ iran' = {Masked(e) : e \in list}
    /\ UNCHANGED <<links, forceLocal, forceInternational>>

\* The wizard keeps the force lists; Validate asks only for two interfaces.
SetLinks(local, international) ==
    /\ localNet' = local
    /\ internationalNet' = international
    /\ UNCHANGED <<iran, forceLocal, forceInternational>>

Next ==
    \/ \E e \in Entry : \/ AddLocal(e)
                        \/ AddInternational(e)
                        \/ RemoveLocal(e)
                        \/ RemoveInternational(e)
    \/ \E list \in Imports : Import(list)
    \/ \E local, international \in Networks : SetLinks(local, international)

Spec == Init /\ [][Next]_vars

-----------------------------------------------------------------------------
(* Properties *)

\* The lists hold masked prefixes, the CIDR list at least one: later steps
\* compare entries with networks without masking them again.
TypeOK ==
    /\ Connected \subseteq Prefix
    /\ iran \in (SUBSET Prefix) \ {{}}
    /\ forceLocal \subseteq Prefix
    /\ forceInternational \subseteq Prefix

Listed(list, a) == \E p \in list : Covers(p, a)

\* Whatever has been forced and imported in whatever order, every address
\* outside the connected networks leaves where the lists say: forced addresses
\* by their interface, a force-international entry that is broader than the
\* entries of the CIDR list included, then the list's addresses locally and the
\* rest internationally (README.md:12-14, docs/architecture.md:62).
EgressAsIntended ==
    Loads => \A a \in Address : ~Listed(Connected, a) =>
        Best(a).kind =
            CASE Listed(forceInternational, a) -> "force-international"
              [] Listed(forceLocal, a) -> "local"
              [] OTHER -> IF Listed(iran, a) THEN "local" ELSE "international-default"

\* The batch goes through exactly when the two links are in different networks,
\* neither network nor a forced entry is all addresses, and an imported entry for
\* all addresses is cut by a force-international entry: however the lists overlap
\* the networks, themselves and each other, nothing else adds a destination
\* twice.  What Validate lets through (config.go:13-92) is more than what loads.
BatchLoads ==
    Loads <=> /\ localNet # internationalNet
              /\ Everything \notin Connected \cup forceLocal \cup forceInternational
              /\ Everything \in iran => forceInternational # {}

\* A gateway never depends on the longest match between the lists: apart from
\* the connected and the default routes no two routes overlap.
NoOverlap ==
    LET listed == {r \in Table : r.kind \in {"local", "force-international"}}
    IN \A r \in listed, s \in listed : Overlaps(r.dst, s.dst) => r = s
=============================================================================
