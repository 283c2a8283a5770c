------------------------------- MODULE Services -------------------------------
(***************************************************************************)
(* The services beside the trading core, side by side: the backtest and its *)
(* parameter search, payments, the candle feed, the settings, the analytics *)
(* and the overlay panel.  They run in different processes or handlers and  *)
(* share no variable: an interleaving of two of them shows each a behaviour *)
(* it has alone, so a behaviour of the system is followed through one of    *)
(* them, the one in focus, while the others rest where they start.          *)
(***************************************************************************)
EXTENDS Backtest, WalkForward, Subscribers, CandleFeed, Settings, Analytics, OverlayPanel

VARIABLE focus

vars == <<focus, series, walkVars, subVars, feedVars, settingsVars, curveVars, panelVars>>

Parts == {"backtest", "search", "payments", "feed", "settings", "analytics", "panel"}

\* A choice of the initial state is open in focus only.
Init ==
  /\ focus \in Parts
  /\ InitBacktest /\ InitWalk /\ InitSubs /\ InitFeed /\ InitSettings /\ InitCurves /\ InitPanel
  /\ focus # "payments" => cased
  /\ focus # "settings" => stored = CHOOSE c \in ConfigBodies : ValidateConfig(c)

Next ==
  /\ UNCHANGED focus
  /\ \/ /\ focus = "backtest" /\ NextCandle
        /\ UNCHANGED <<walkVars, subVars, feedVars, settingsVars, curveVars, panelVars>>
     \/ /\ focus = "search" /\ NextWalk
        /\ UNCHANGED <<series, subVars, feedVars, settingsVars, curveVars, panelVars>>
     \/ /\ focus = "payments" /\ NextSubs
        /\ UNCHANGED <<series, walkVars, feedVars, settingsVars, curveVars, panelVars>>
     \/ /\ focus = "feed" /\ NextFeed
        /\ UNCHANGED <<series, walkVars, subVars, settingsVars, curveVars, panelVars>>
     \/ /\ focus = "settings" /\ NextSettings
        /\ UNCHANGED <<series, walkVars, subVars, feedVars, curveVars, panelVars>>
     \/ /\ focus = "analytics" /\ NextCurves
        /\ UNCHANGED <<series, walkVars, subVars, feedVars, settingsVars, panelVars>>
     \/ /\ focus = "panel" /\ NextPanel
        /\ UNCHANGED <<series, walkVars, subVars, feedVars, settingsVars, curveVars>>

Spec == Init /\ [][Next]_vars
=============================================================================
