--------------------------- MODULE StrategyForm ---------------------------
(***************************************************************************)
(* The form of the strategy page (frontend/src/pages/Agent.tsx).  A field   *)
(* holds a value of some origin: the default configuration of the hook, the *)
(* one the API served, a preset, or the user.  Nothing is ever sent to the  *)
(* agent; the three toggles and the liquidity slider are disabled.          *)
(***************************************************************************)
EXTENDS Naturals

Profiles == {"conservative", "balanced", "aggressive"}
Synced == {"apy", "slip", "cycle"}
Sliders == Synced \cup {"alloc"}
Configs == {"default", "served"}
Origins == Configs \cup Profiles \cup {"user"}

\* The state variables of the page once the effect of its first render has run.
FreshForm == [profile |-> "balanced",
              field |-> [f \in Sliders \cup {"liq"} |->
                           IF f \in Synced THEN "default" ELSE "balanced"],
              saved |-> 0]

\* The effect on the configuration: whatever the sliders show is replaced.
SyncForm(form, config) ==
    [form EXCEPT !.field = [f \in DOMAIN @ |-> IF f \in Synced THEN config ELSE @[f]]]

\* The cycle is no part of a preset.
ApplyProfile(form, p, config) ==
    [form EXCEPT !.profile = p,
                 !.field = [f \in DOMAIN @ |-> IF f = "cycle" THEN config ELSE p]]

ResetForm(form, config) == SyncForm(ApplyProfile(form, "balanced", config), config)

Slide(form, f) == [form EXCEPT !.field[f] = "user"]

\* Save only shows a label, which a timer of each click takes away.
Save(form) == [form EXCEPT !.saved = @ + 1]
SavedTimer(form) == [form EXCEPT !.saved = @ - 1]

\* What the summary promises for the next cycle.
EffectivePolicy(form) == [f \in Sliders |-> form.field[f]]

FormTypeOK(form) ==
    /\ form.profile \in Profiles
    /\ form.field \in [Sliders \cup {"liq"} -> Origins]
    /\ form.saved \in Nat

=============================================================================
