---------------------------- MODULE MCComponents ----------------------------
(* The components that are checked by themselves, for TLC: the anomaly     *)
(* detector, the geofence, a simulated vehicle, the histogram and the feed *)
(* of alerts.  They share nothing, so a behavior is of one of them, and    *)
(* the others stay in their initial states (the vehicle in one of its).    *)
EXTENDS AnomalyDetector, Geofence, VehicleSim, Histogram, AlertFeed

VARIABLE running

Temperatures == {-1, 0, 1, 9}

ComponentsInit ==
  /\ Init /\ FenceInit /\ SimInit /\ HistogramInit /\ FeedInit
  /\ running \in {"detector", "fence", "vehicle", "histogram", "feed"}
  /\ running # "vehicle" =>
       fault = "none" /\ heading = 0 /\ silentAfter = 1 /\ lat = 0 /\ lon = 0

ComponentsNext ==
  /\ UNCHANGED running
  /\ \/ /\ running = "detector" /\ Next
        /\ UNCHANGED <<fence, simVars, histogramVars, feedVars>>
     \/ /\ running = "fence" /\ FenceNext
        /\ UNCHANGED <<vars, simVars, histogramVars, feedVars>>
     \/ /\ running = "vehicle" /\ SimNext
        /\ UNCHANGED <<vars, fence, histogramVars, feedVars>>
     \/ /\ running = "histogram" /\ HistogramNext
        /\ UNCHANGED <<vars, fence, simVars, feedVars>>
     \/ /\ running = "feed" /\ FeedNext
        /\ UNCHANGED <<vars, fence, simVars, histogramVars>>

ComponentsSpec ==
  ComponentsInit
    /\ [][ComponentsNext]_<<running, vars, fence, simVars, histogramVars, feedVars>>

(* Values have their types, whichever component runs. *)
ComponentsTypeOK ==
  TypeOK /\ FenceTypeOK /\ SimTypeOK /\ HistogramTypeOK /\ FeedTypeOK

=============================================================================
