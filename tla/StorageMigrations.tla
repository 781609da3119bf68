------------------------- MODULE StorageMigrations -------------------------
(***************************************************************************)
(* The migrations an upgrade of the runtime runs over the storage of the   *)
(* pallets.  A stored value is the value and the layout it was written in: *)
(* the size of a lower's params (V1 or V2) and the version of a            *)
(* transaction's data.  Read in another layout it fails to decode or, when *)
(* enough bytes follow, decodes to something else.                         *)
(***************************************************************************)
EXTENDS Integers, SequencesExt, FiniteSetsExt, TLC

CONSTANTS
  GenesisVersions,        \* the version of the bridge's storage an upgrade may find
  LowerVersions,          \* and of the token manager's
  OwnerKey,               \* the Ethereum key of each account that has one
  MaxRequests             \* bound

VARIABLE mg

BridgeVersion == 5
TokenVersion == 2
ReverseVersion == 2       \* of validators-manager; authors-manager has 1
AnchorVersion == 2

Garbage == [id |-> 0, kind |-> "Send", params |-> "none", tx |-> "none"]
Layouts(version) ==
  [params |-> IF version < 5 THEN "V1" ELSE "V2", tx |-> IF version < 4 THEN "v3" ELSE "v4"]
\* Only a request to send has transaction data, once it is confirmed.
Request(id, kind, confirmed, version) ==
  [id |-> id, kind |-> kind,
   params |-> IF kind = "LowerProof" THEN Layouts(version).params ELSE "none",
   tx |-> IF kind = "Send" /\ confirmed THEN Layouts(version).tx ELSE "none"]
Decodes(r, layout) == r.params \in {"none", layout.params} /\ r.tx \in {"none", layout.tx}

\* code is the version of the bridge's storage that the running code expects, asked
\* what was requested and not yet served, risky the requests that an upgrade over
\* version 4 found active as lower proofs.
MigrationsInit ==
  \E v \in GenesisVersions, l \in LowerVersions, rv \in 0..1, av \in 0..1, taken \in BOOLEAN :
    mg = [bridge |-> [version |-> v, rangeSize |-> 0, range |-> IF v < 3 THEN "v2" ELSE "v3",
                      active |-> <<>>, queue |-> <<>>],
          tokens |-> [version |-> l, period |-> 0, lowers |-> <<>>],
          validators |-> [version |-> rv, reverse |-> <<>>],
          authors |-> [version |-> 0, reverse |-> <<>>],
          anchor |-> [version |-> av, data |-> TRUE],
          avt |-> FALSE, taken |-> taken, code |-> v, next |-> 1, asked |-> <<>>, risky |-> {}]

-----------------------------------------------------------------------------
\* translate: a value that does not decode is left as it is.
Translate(r, layout, to(_)) ==
  IF Decodes(r, layout) THEN {to(r)} ELSE {r, Garbage}
set_block_range_size(b) == IF b.rangeSize = 0 THEN [b EXCEPT !.rangeSize = 20] ELSE b
migrate_to_v3(b) == [b EXCEPT !.range = "v3", !.version = 3]
\* The request inside is read in the layout of the code, not of version 3.
migrate_to_v4(b) ==
  {[b EXCEPT !.active = a, !.version = BridgeVersion] :
     a \in IF b.active = <<>> THEN {<<>>}
           ELSE {<<r>> : r \in Translate(b.active[1], [params |-> "V2", tx |-> "v3"],
                                 LAMBDA q : [q EXCEPT !.tx = IF @ = "v3" THEN "v4" ELSE @])}}
resize_lower_params_to_v5(r) == [r EXCEPT !.params = IF @ = "V1" THEN "V2" ELSE @]
V4Layout == [params |-> "V1", tx |-> "v4"]
migrate_active_request_to_v5(b) ==
  {[b EXCEPT !.active = a] :
     a \in IF b.active = <<>> THEN {<<>>}
           ELSE {<<r>> : r \in Translate(b.active[1], V4Layout, resize_lower_params_to_v5)}}
\* The queue is one value: a request in another layout spoils all of it.
migrate_request_queue_to_v5(b) ==
  IF \A i \in DOMAIN b.queue : Decodes(b.queue[i], V4Layout)
  THEN {[b EXCEPT !.queue = [i \in DOMAIN @ |-> resize_lower_params_to_v5(@[i])]]}
  ELSE {b, [b EXCEPT !.queue = [i \in DOMAIN @ |-> Garbage]]}
migrate_to_v5_without_version(b) ==
  UNION {migrate_request_queue_to_v5(a) : a \in migrate_active_request_to_v5(b)}
migrate_to_v5(b) ==
  {[q EXCEPT !.version = BridgeVersion] :
     q \in UNION {migrate_request_queue_to_v5(a) : a \in migrate_active_request_to_v5(b)}}
\* What to run is decided by the version found at the start.
EthBridgeMigrations(b) ==
  LET onchain == b.version
      sized == set_block_range_size(b)
      at3 == IF onchain < 3 THEN migrate_to_v3(sized) ELSE sized
      at4 == IF onchain < 4 THEN migrate_to_v4(at3) ELSE {at3}
  IN IF onchain <= 4 THEN UNION {migrate_to_v5(x) : x \in at4} ELSE at4

-----------------------------------------------------------------------------
set_lower_schedule_period(t) == [t EXCEPT !.period = 3275, !.version = TokenVersion]
\* A map is translated entry by entry.
expand_lower_v1_to_v2(layout) == IF layout = "V1" THEN {"V2"} ELSE {layout, "garbage"}
translate_lower_data(t) ==
  {[t EXCEPT !.lowers = ls, !.version = TokenVersion] :
     ls \in {f \in [DOMAIN t.lowers -> {"V1", "V2", "garbage"}] :
               \A i \in DOMAIN f : f[i] \in expand_lower_v1_to_v2(t.lowers[i])}}
SetLowerSchedulePeriod(t) ==
  LET p == IF t.version < 1 THEN set_lower_schedule_period(t) ELSE t
  IN IF t.version < 2 THEN translate_lower_data(p) ELSE {p}

populate_reverse_map(m, version) == [reverse |-> OwnerKey, version |-> version]
ValidatorsManagerMigrations(m) ==
  IF m.version = 1 THEN populate_reverse_map(m, ReverseVersion) ELSE m
AuthorsManagerMigrations(m) == IF m.version < 1 THEN populate_reverse_map(m, 1) ELSE m
AnchorMigration(a) == IF a.version # 1 THEN a ELSE [version |-> AnchorVersion, data |-> FALSE]
\* The token's location may be another asset's already.
RegisterAvtToken(avt, taken) == avt \/ ~taken

\* The runtime's list of migrations, and those of the pallets it no longer names.
on_runtime_upgrade ==
  \E b \in EthBridgeMigrations(mg.bridge), t \in SetLowerSchedulePeriod(mg.tokens) :
    mg' = [mg EXCEPT !.bridge = b, !.tokens = t, !.code = BridgeVersion,
             !.avt = RegisterAvtToken(@, mg.taken),
             !.validators = ValidatorsManagerMigrations(@),
             !.authors = AuthorsManagerMigrations(@), !.anchor = AnchorMigration(@),
             !.risky = IF mg.bridge.version < 4 /\ mg.bridge.active # <<>>
                          /\ mg.bridge.active[1].kind = "LowerProof"
                       THEN @ \cup {mg.bridge.active[1].id} ELSE @]

-----------------------------------------------------------------------------
\* Between upgrades the bridge takes requests, confirms and serves the active one, and
\* the token manager records lowers, in the layouts of the code that runs.
Ask(kind) ==
  LET r == Request(mg.next, kind, FALSE, mg.code)
  IN /\ mg.next <= MaxRequests
     /\ mg' = [mg EXCEPT !.next = @ + 1, !.asked = Append(@, mg.next),
                 !.bridge = IF mg.bridge.active = <<>> THEN [@ EXCEPT !.active = <<r>>]
                            ELSE [@ EXCEPT !.queue = Append(@, r)]]
Confirm ==
  /\ mg.bridge.active # <<>> /\ mg.bridge.active[1].kind = "Send"
  /\ mg' = [mg EXCEPT !.bridge.active[1].tx = Layouts(mg.code).tx]
Serve ==
  LET waiting == mg.bridge.queue
  IN /\ mg.bridge.active # <<>>
     /\ mg' = [mg EXCEPT !.asked = Tail(@),
                 !.bridge.active = IF waiting = <<>> THEN <<>> ELSE <<Head(waiting)>>,
                 !.bridge.queue = IF waiting = <<>> THEN <<>> ELSE Tail(waiting)]
RecordLower ==
  /\ mg.tokens.lowers = <<>>
  /\ mg' = [mg EXCEPT !.tokens.lowers = <<IF mg.tokens.version < 2 THEN "V1" ELSE "V2">>]

MigrationsNext ==
  \/ on_runtime_upgrade
  \/ \E kind \in {"Send", "LowerProof"} : Ask(kind)
  \/ Confirm \/ Serve \/ RecordLower
MigrationsSpec == MigrationsInit /\ [][MigrationsNext]_mg

-----------------------------------------------------------------------------
\* Whenever upgrades come, once, again or over several versions, with requests waiting or
\* active: the running code can read every request and lower, and none was lost or
\* moved, with one exception: an active lower proof when version 4 is skipped
\* (EthBridgeMigrations, migrate_to_v4, translate_lower_data).
SurvivesUpgrades ==
  LET held == mg.bridge.active \o mg.bridge.queue
  IN /\ Len(held) = Len(mg.asked)
     /\ \A i \in DOMAIN held :
          mg.asked[i] \notin mg.risky =>
            held[i].id = mg.asked[i] /\ Decodes(held[i], Layouts(mg.code))
     /\ \A i \in DOMAIN mg.tokens.lowers :
          mg.tokens.lowers[i] = IF mg.tokens.version < 2 THEN "V1" ELSE "V2"
=============================================================================
