----------------------------- MODULE PolicyMerge -----------------------------
(***************************************************************************)
(* How several policies become the one configuration of a device:           *)
(* policy_engine.py, and the orders in which drift_detector.py and the        *)
(* preview of policy_routes.py hand it the policies.  Functions only.        *)
(*                                                                         *)
(* A configuration is a function from some keys to values.  A value is a    *)
(* scalar, a list (of strings: the bag of them, for the hash sorts it) or an  *)
(* object, which is a configuration again.                                 *)
(***************************************************************************)
EXTENDS Naturals, Sequences, SequencesExt

Scalar(x) == [kind |-> "scalar", v |-> x]
List(s)   == [kind |-> "list",   v |-> SetToBag(s)]
Items(l)  == BagToSet(l.v)
Object(f) == [kind |-> "object", v |-> f]
Empty     == << >>

Only(k, v)      == [x \in {k} |-> v]
Get(f, k, else) == IF k \in DOMAIN f THEN f[k] ELSE else
Set(f, k, v)    == [x \in DOMAIN f \cup {k} |-> IF x = k THEN v ELSE f[x]]
Without(f, k)   == [x \in DOMAIN f \ {k} |-> f[x]]

-----------------------------------------------------------------------------
(* Mutant: a list is appended to a list.                                   *)
RECURSIVE AppendTwo(_, _)
AppendTwo(base, override) ==
    [k \in DOMAIN base \cup DOMAIN override |->
        LET a == Get(base, k, Scalar("none"))
            b == Get(override, k, a)
        IN  CASE a.kind = "object" /\ b.kind = "object" -> Object(AppendTwo(a.v, b.v))
              [] a.kind = "list" /\ b.kind = "list" /\ k \in DOMAIN base \cap DOMAIN override ->
                    [kind |-> "list", v |-> a.v (+) b.v]
              [] OTHER -> b]

(* Objects are merged, lists are joined, and otherwise the override wins.    *)
RECURSIVE DeepMergeTwo(_, _)
DeepMergeTwo(base, override) ==
    [k \in DOMAIN base \cup DOMAIN override |->
        LET a == Get(base, k, Scalar("none"))
            b == Get(override, k, a)
        IN  CASE a.kind = "object" /\ b.kind = "object" -> Object(DeepMergeTwo(a.v, b.v))
              [] a.kind = "list" /\ b.kind = "list" -> List(Items(a) \cup Items(b))
              [] OTHER -> b]

(* The legacy key kiosk_mode becomes kiosk: enabled as a truth value, and the *)
(* first package that is named and not empty, which is also allowed.         *)
Truth(value) == Scalar(IF value.v \in {"no", ""} THEN "no" ELSE "yes")
PackageOf(legacy) ==
    LET name == Get(legacy, "package_name", Scalar(""))
    IN  IF name.v # "" THEN name ELSE Get(legacy, "package", Scalar(""))

NormalizePolicyConfig(config) ==
    LET legacy  == Get(config, "kiosk_mode", Scalar("none"))
        rest    == Without(config, "kiosk_mode")
        kiosk   == Get(rest, "kiosk", Object(Empty))
        enabled == IF "enabled" \in DOMAIN legacy.v
                   THEN Set(kiosk.v, "enabled", Truth(legacy.v["enabled"])) ELSE kiosk.v
        name    == PackageOf(legacy.v)
        named   == Set(rest, "kiosk", Object(Set(enabled, "package_name", name)))
        apps    == Get(rest, "allowed_apps", List({}))
    IN  CASE legacy.kind # "object" -> rest
          [] name.v = "" -> Set(rest, "kiosk", Object(enabled))
          [] OTHER -> Set(named, "allowed_apps",
                          IF apps.kind = "list" THEN List(Items(apps) \cup {name.v}) ELSE apps)

SystemDefaults ==
    Set(Only("allowed_apps", List({"com.elion.mdm"})),
        "kiosk", Object(Only("enabled", Scalar("no"))))

(* Mutant: the profile's own fields come last.                             *)
StaticLast(layers, static) ==
    LET apply(merged, layer) == DeepMergeTwo(merged, NormalizePolicyConfig(layer))
    IN  DeepMergeTwo(FoldLeft(apply, SystemDefaults, layers), static)

(* The defaults, the profile's own fields if any are given, then the layers  *)
(* from the lowest to the highest.                                         *)
MergePolicies(layers, static) ==
    LET apply(merged, layer) == DeepMergeTwo(merged, NormalizePolicyConfig(layer))
    IN  FoldLeft(apply, DeepMergeTwo(SystemDefaults, static), layers)

ScopeOrder == [global |-> 0, group |-> 1, device |-> 2]

(* A policy a device is held to: its scope and priority, its place among the *)
(* profile's links if it has one (an assigned one comes after them), and its  *)
(* config.  The sort is by scope and priority, and keeps the order of the     *)
(* links where they are equal.                                             *)
Before(p, q) ==
    \/ ScopeOrder[p.scope] < ScopeOrder[q.scope]
    \/ /\ p.scope = q.scope
       /\ p.priority < q.priority \/ (p.priority = q.priority /\ p.link < q.link)

Layers(order) == [i \in DOMAIN order |-> order[i].config]
Ranked(found) == Layers(SetToSortSeq(found, Before))

(* The configuration get_device_desired_state makes of a set of policies.    *)
DesiredState(found) == IF found = {} THEN Empty ELSE MergePolicies(Ranked(found), Empty)

(* What _normalize_profile_static makes of a profile's own fields.           *)
StaticLayer(profile) ==
    Set(Only("kiosk", Object(Only("enabled", Scalar(profile.kiosk)))), "allowed_apps", List(profile.apps))

(* The preview of a profile: the global policies by their priorities, then   *)
(* the linked ones by the numbers of their links.                           *)
Preview(globals, linked, profile) ==
    MergePolicies(Layers(SetToSortSeq(globals, LAMBDA p, q : p.priority < q.priority)
                             \o SetToSortSeq(linked, LAMBDA p, q : p.link < q.link)),
                  StaticLayer(profile))

-----------------------------------------------------------------------------
(* The inputs: what policies say of the kiosk, in the new form or the        *)
(* legacy one, and of the allowed apps.                                    *)

KioskObjects ==
    {Empty} \cup {Only("enabled", Scalar(e)) : e \in {"yes", "no"}}
    \cup {Only("package_name", Scalar("app"))}
    \cup {Set(Only("package_name", Scalar("app")), "enabled", Scalar(e)) : e \in {"yes", "no"}}

With(configs, k, values) == configs \cup {Set(c, k, v) : c \in configs, v \in values}

LegacyObjects ==
    KioskObjects \cup {Only("package", Scalar("app")), Only("enabled", Scalar("")),
                       Set(Only("package_name", Scalar("")), "package", Scalar("app"))}

Configs ==
    LET kiosk  == With({Empty}, "kiosk", {Object(o) : o \in KioskObjects})
        legacy == With(kiosk, "kiosk_mode", {Object(o) : o \in LegacyObjects} \cup {Scalar("yes")})
    IN  With(legacy, "allowed_apps", {List({}), List({"web"})})

(* What a layer says of a field of the kiosk, in whichever form, or "silent". *)
SaysLegacy(legacy, field) ==
    CASE legacy.kind # "object" -> "silent"
      [] field = "enabled" /\ "enabled" \in DOMAIN legacy.v -> Truth(legacy.v["enabled"]).v
      [] field = "package_name" /\ \E k \in {"package_name", "package"} : Get(legacy.v, k, Scalar("")).v # "" -> "app"
      [] OTHER -> "silent"

Says(config, field) ==
    LET legacy == SaysLegacy(Get(config, "kiosk_mode", Scalar("none")), field)
    IN  IF legacy # "silent" THEN legacy
        ELSE Get(Get(config, "kiosk", Object(Empty)).v, field, Scalar("silent")).v

(* The last layer that says anything of a kiosk field decides it, a legacy   *)
(* field before a new one; and no allowed app is lost on the way             *)
(* (merge_policies, _normalize_policy_config).                              *)
LastLayerWins ==
    \A c, d \in Configs :
        LET merged == MergePolicies(<<c, d>>, Empty)
            field(f) == Get(merged["kiosk"].v, f, Scalar("silent")).v
            expected(f) == CASE Says(d, f) # "silent" -> Says(d, f)
                             [] Says(c, f) # "silent" -> Says(c, f)
                             [] OTHER -> Get(SystemDefaults["kiosk"].v, f, Scalar("silent")).v
            apps(x) == Items(Get(x, "allowed_apps", List({})))
        IN  /\ \A f \in {"enabled", "package_name"} : field(f) = expected(f)
            /\ apps(c) \cup apps(d) \cup {"com.elion.mdm"} \subseteq apps(merged)

(* A policy that reaches the device twice, by the profile and as a global    *)
(* one, counts once: merging a layer again changes nothing, not even below   *)
(* another that came in between, except for what that one says.             *)
RepeatingIsHarmless ==
    LET merge(layers) == MergePolicies(layers, Empty)
    IN  \A c, d \in Configs : /\ merge(<<c, c>>) = merge(<<c>>)
                              /\ merge(<<c, d, d>>) = merge(<<c, d>>)
                              /\ merge(<<d, c, d>>) = merge(<<c, d>>)

Modes == {Only("kiosk", Object(Only("enabled", Scalar(e)))) : e \in {"yes", "no"}}

LinkedPolicies == [scope : DOMAIN ScopeOrder, priority : 1 .. 2, link : 1 .. 2, config : Modes]

(* The policy of the wider scope never overrides the one of the narrower,    *)
(* whatever their priorities and links (get_device_desired_state).           *)
ScopeDecides ==
    \A p, q \in LinkedPolicies :
        ScopeOrder[p.scope] < ScopeOrder[q.scope] =>
            DesiredState({p, q})["kiosk"].v["enabled"] = q.config["kiosk"].v["enabled"]

Profiles == [kiosk : {"yes", "no"}, apps : {{}, {"mail"}}]

(* What a preview shows and what a device of the profile is held to, when     *)
(* every global policy is linked.                                          *)
Shown(linked, profile) ==
    Preview({p \in linked : p.scope = "global"}, linked, profile)["kiosk"].v["enabled"]
Held(linked)           == DesiredState(linked)["kiosk"].v["enabled"]

(* The preview an administrator is shown and the state the devices are held  *)
(* to are reckoned apart, in orders of their own: they agree on everything   *)
(* the linked policies say of the kiosk, whatever the profile's own fields,  *)
(* and altogether when those add nothing to the defaults, as long as the      *)
(* links rank the policies as their scopes and priorities do and every global *)
(* policy is linked (preview_profile_merged_policy, get_device_desired_state).*)
PreviewAgrees ==
    /\ \A c, d \in Configs, profile \in Profiles :
        LET linked == {[scope |-> "group", priority |-> 1, link |-> 1, config |-> c],
                       [scope |-> "group", priority |-> 2, link |-> 2, config |-> d]}
            shown  == Preview({}, linked, profile)
            held   == DesiredState(linked)
        IN  /\ \A f \in {"enabled", "package_name"} :
                  Says(c, f) # "silent" \/ Says(d, f) # "silent" =>
                    shown["kiosk"].v[f] = held["kiosk"].v[f]
            /\ profile = [kiosk |-> "no", apps |-> {}] => shown = held
    /\ \A p, q \in LinkedPolicies, profile \in Profiles :
        p.link < q.link /\ Before(p, q) => Shown({p, q}, profile) = Held({p, q})
=============================================================================
