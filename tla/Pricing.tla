------------------------------- MODULE Pricing -------------------------------
(***************************************************************************)
(* Prices: static defaults, the overrides administrators store, and what   *)
(* the two make together; and the other settings kept whole, the menu's.   *)
(*                                                                         *)
(* A setting is a document per key and environment.  Saving replaces it    *)
(* under the next version, deleting disables it under the next version,    *)
(* each with an audit fact in the same transaction.  Readers take the      *)
(* enabled document of their environment, or that of all environments, and *)
(* lay its fields over the defaults.  Only the member's prices are checked *)
(* when they are saved; package overrides are whatever JSON was sent.      *)
(* A number of JSON stands for its floor; one that an amount cannot hold is *)
(* converted to what the build makes of it.                                *)
(***************************************************************************)
EXTENDS Integers, FiniteSets

CONSTANTS
    Administrators, GradeOf,   \* admin or super_admin
    Environments,              \* "all" among them
    PackageOverrides,          \* what is sent for the packages
    MemberOverrides,           \* what is sent for the membership
    Menus,                     \* menu overrides: paths to BOOLEAN
    MaxInt64, Overflow,        \* the largest amount, and what a larger number is converted to
    MaxSaves                   \* bound: committed writes

\* JSON values: a number, also as text, or one of the things that are not numbers.
Value == [kind : {"absent", "null", "blank", "bool", "int", "text"}, n : Int]
Missing == [kind |-> "absent", n |-> 0]
AmountFields == {"coins", "bonusCoins", "priceInCents"}
MemberFields == {"priceMonthly", "priceYearly", "images", "videos", "firstMonthMultiplier"}
SystemKeys == {"coinPackages", "firstRecharge"}
SettingKeys == SystemKeys \cup {"vip"}
Settings == SettingKeys \X Environments

\* The language leaves the conversion of a number out of range to the build: the
\* least amount there is on one architecture, the largest on another.
ASSUME PricingAssumption ==
    /\ "all" \in Environments /\ MaxSaves \in Nat
    /\ MaxInt64 \in Nat /\ Overflow \in {MaxInt64, -MaxInt64 - 1}
    /\ \A overrides \in MemberOverrides : \A f \in DOMAIN overrides : overrides[f] \in Value

VARIABLES
    settings,      \* admin_pricing_configs
    menu,          \* admin_menu_visibility
    configAudits,  \* audit facts of the settings
    menuAudits,    \* audit facts of the menu
    shown          \* the last membership an administrator was answered with

pricingVars == <<settings, menu, configAudits, menuAudits, shown>>
-----------------------------------------------------------------------------
NoDocument == [value |-> {}, enabled |-> FALSE, version |-> 0]
StoredSetting(d) == settings[d].version > 0
Saves == Cardinality(configAudits) + Cardinality(menuAudits)

\* Settings are a super administrator's, prices any administrator's.
Authorize(a, superAdmin) ==
    /\ GradeOf[a] \in {"admin", "super_admin"}
    /\ superAdmin => GradeOf[a] = "super_admin"

\* Numbers are read generously: nothing, null and blank are zero, booleans 0 or 1.
IsNumber(v) == v.kind # "text"
Number(v) == IF v.kind \in {"int", "bool"} THEN v.n ELSE 0

\* An amount is any number that is not negative, converted without a limit.
NonNegativeInt(v) == IsNumber(v) /\ Number(v) >= 0
ToInt64(n) == IF n > MaxInt64 THEN Overflow ELSE n
-----------------------------------------------------------------------------
(* What overrides make of the defaults.                                    *)

StaticCoinPackages ==
    [small |-> [coins |-> 3, bonusCoins |-> 1, priceInCents |-> 2, enabled |-> TRUE, custom |-> FALSE],
     large |-> [coins |-> 5, bonusCoins |-> 2, priceInCents |-> 4, enabled |-> TRUE, custom |-> FALSE]]

Empty == [coins |-> 0, bonusCoins |-> 0, priceInCents |-> 0, enabled |-> TRUE, custom |-> TRUE]

\* What an override holds under a name; a name it leaves out reads as absent.
FieldOf(override, field) == IF field \in DOMAIN override THEN override[field] ELSE Missing

\* An amount that reads as a number replaces the package's.
Amount(override, field, default) ==
    IF NonNegativeInt(FieldOf(override, field)) THEN ToInt64(Number(FieldOf(override, field))) ELSE default

ApplyPackageOverride(package, override) ==
    LET enabled == FieldOf(override, "enabled") IN
    [package EXCEPT !.coins = Amount(override, "coins", @),
                    !.bonusCoins = Amount(override, "bonusCoins", @),
                    !.priceInCents = Amount(override, "priceInCents", @),
                    !.enabled = IF enabled.kind = "bool" THEN enabled.n = 1 ELSE @]

MarkedCustom(override) == FieldOf(override, "_custom") = [kind |-> "bool", n |-> 1]

\* Defaults under their overrides, and the packages that overrides define.
EffectiveCoinPackages(overrides) ==
    LET builtin == DOMAIN StaticCoinPackages
        custom == {id \in DOMAIN overrides \ builtin : MarkedCustom(overrides[id])} IN
    [id \in builtin \cup custom |->
        IF id \in custom THEN ApplyPackageOverride(Empty, overrides[id])
        ELSE IF id \in DOMAIN overrides THEN ApplyPackageOverride(StaticCoinPackages[id], overrides[id])
        ELSE StaticCoinPackages[id]]

StaticVIPConfig ==
    [priceMonthly |-> 12, priceYearly |-> 69, images |-> 10, videos |-> 3, firstMonthMultiplier |-> 2]

QuotaFields == {"images", "videos", "firstMonthMultiplier"}

\* The quota is a document of its own: without it none of its fields is read.
HoldsQuota(overrides) == QuotaFields \cap DOMAIN overrides # {}

EffectiveVIPConfig(overrides) ==
    [f \in MemberFields |->
        LET v == FieldOf(overrides, f) IN
        CASE f \in QuotaFields /\ ~HoldsQuota(overrides) -> StaticVIPConfig[f]
          [] f = "firstMonthMultiplier" -> IF IsNumber(v) THEN Number(v) ELSE StaticVIPConfig[f]
          [] OTHER -> Amount(overrides, f, StaticVIPConfig[f])]

\* What may be saved: amounts that are none are refused, as is a multiplier below one.
ValidVIPOverrides(overrides) ==
    \A f \in DOMAIN overrides :
        IF f = "firstMonthMultiplier" THEN IsNumber(overrides[f]) /\ Number(overrides[f]) >= 1
        ELSE NonNegativeInt(overrides[f])

\* And what is saved of it: the converted amounts.
NormalizeVIPOverrides(overrides) ==
    [f \in DOMAIN overrides |->
        [kind |-> "int",
         n |-> IF f = "firstMonthMultiplier" THEN Number(overrides[f]) ELSE ToInt64(Number(overrides[f]))]]
-----------------------------------------------------------------------------
(* Reading.                                                                *)

\* The enabled document of an environment, else that of all environments.
Load(key, env) ==
    IF settings[<<key, env>>].enabled THEN {settings[<<key, env>>].value}
    ELSE IF settings[<<key, "all">>].enabled THEN {settings[<<key, "all">>].value}
    ELSE {}

OverridesOf(key) == IF Load(key, "all") = {} THEN << >> ELSE CHOOSE v \in Load(key, "all") : TRUE
Packages == EffectiveCoinPackages(OverridesOf("coinPackages"))
VIP == IF Load("vip", "all") = {} THEN StaticVIPConfig ELSE EffectiveVIPConfig(OverridesOf("vip"))
-----------------------------------------------------------------------------
(* Writing.                                                                *)

NextVersion(document) == document.version + 1

SavedFact(d, version, action) == [document |-> d, version |-> version, action |-> action, at |-> Saves]

\* Replaces a document and says so, in one transaction.
SaveDocument(d, value) ==
    /\ Saves < MaxSaves
    /\ settings' = [settings EXCEPT ![d] =
           [value |-> value, enabled |-> TRUE, version |-> NextVersion(@)]]
    /\ configAudits' = configAudits \cup {SavedFact(d, settings'[d].version, "update")}
    /\ UNCHANGED <<menu, menuAudits>>

SaveSystemConfig(a, key, env, value) ==
    /\ Authorize(a, TRUE) /\ key \in SystemKeys
    /\ SaveDocument(<<key, env>>, value)
    /\ UNCHANGED shown

\* A membership is saved for all environments; its answer is read afterwards.
SaveVIP(a, overrides) ==
    /\ Authorize(a, FALSE) /\ ValidVIPOverrides(overrides)
    /\ SaveDocument(<<"vip", "all">>, NormalizeVIPOverrides(overrides))
    /\ UNCHANGED shown

ShowVIP(a) ==
    /\ Authorize(a, FALSE)
    /\ shown' = [shown EXCEPT ![a] = VIP]
    /\ UNCHANGED <<settings, menu, configAudits, menuAudits>>

\* A deletion disables, and does so again when it is repeated.
DeleteSystemConfig(a, key, env) ==
    LET d == <<key, env>> IN
    /\ Authorize(a, TRUE) /\ key \in SystemKeys /\ StoredSetting(d)
    /\ Saves < MaxSaves
    /\ settings' = [settings EXCEPT ![d].enabled = FALSE, ![d].version = @ + 1]
    /\ configAudits' = configAudits \cup {SavedFact(d, settings'[d].version, "delete")}
    /\ UNCHANGED <<menu, menuAudits, shown>>

\* Menu paths are absolute.
NormalizeOverrides(overrides) == \A path \in DOMAIN overrides : path # "relative"

\* The menu is replaced whole: a path that is left out returns to its default.
SaveMenu(a, overrides) ==
    /\ Authorize(a, TRUE) /\ NormalizeOverrides(overrides)
    /\ Saves < MaxSaves
    /\ menu' = overrides
    /\ menuAudits' = menuAudits \cup {[menu |-> overrides, at |-> Saves]}
    /\ UNCHANGED <<settings, configAudits, shown>>

PricingInit ==
    /\ settings = [d \in Settings |-> NoDocument]
    /\ menu = << >>
    /\ configAudits = {} /\ menuAudits = {}
    /\ shown = [a \in Administrators |-> StaticVIPConfig]

PricingNext ==
    \E a \in Administrators :
        \/ \E key \in SystemKeys, env \in Environments :
              \/ \E value \in PackageOverrides : SaveSystemConfig(a, key, env, value)
              \/ DeleteSystemConfig(a, key, env)
        \/ \E overrides \in MemberOverrides : SaveVIP(a, overrides)
        \/ ShowVIP(a)
        \/ \E overrides \in Menus : SaveMenu(a, overrides)

PricingSpec == PricingInit /\ [][PricingNext]_pricingVars
-----------------------------------------------------------------------------
PricingTypeOK ==
    /\ \A d \in Settings : settings[d].enabled \in BOOLEAN /\ settings[d].version \in 0..MaxSaves
    /\ Saves <= MaxSaves

\* The audit of a document tells its versions without a gap or a repetition,
\* through deletions and later saves (data/admin_pricing.go).
VersionsAudited ==
    \A d \in Settings :
        LET facts == {f \in configAudits : f.document = d} IN
        /\ Cardinality(facts) = settings[d].version
        /\ {f.version : f \in facts} = 1..settings[d].version

\* The packages on offer are the built-in ones and those marked as an
\* administrator's own, whatever JSON is stored; text and negative numbers never
\* become an amount, so that an amount below zero is a number stored for it that
\* no amount can hold (biz/adminpricing/model.go, EffectiveCoinPackages).
OffersSane ==
    LET overrides == OverridesOf("coinPackages") IN
    /\ DOMAIN StaticCoinPackages \subseteq DOMAIN Packages
    /\ \A id \in DOMAIN Packages :
          /\ \A field \in AmountFields :
                Packages[id][field] >= 0 \/ Number(FieldOf(overrides[id], field)) > MaxInt64
          /\ id \notin DOMAIN StaticCoinPackages => overrides[id]["_custom"].n = 1

\* The membership's prices and quotas are never negative: what is out of range is
\* converted before it is saved, and read as the default where that made it
\* negative (biz/adminpricing/model.go, NormalizeVIPOverrides, EffectiveVIPConfig).
MembershipSane == \A f \in MemberFields : VIP[f] >= 0

\* What is offered and what the audit says of it.
PricingSafe == VersionsAudited /\ OffersSane /\ MembershipSane

\* Stored overrides are composed with the static defaults (biz/adminpricing/
\* model.go, Operations): an amount they do not name keeps its default.
DefaultsComposed ==
    /\ \A id \in DOMAIN StaticCoinPackages \cap DOMAIN OverridesOf("coinPackages"), f \in AmountFields :
          f \notin DOMAIN OverridesOf("coinPackages")[id] => Packages[id][f] = StaticCoinPackages[id][f]
    /\ \A f \in {"priceMonthly", "priceYearly"} \ DOMAIN OverridesOf("vip") : VIP[f] = StaticVIPConfig[f]
=============================================================================
