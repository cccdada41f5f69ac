------------------------ MODULE MCLightCurveSession ------------------------
(* Previews of two samples.  The first runtime has no faults; the one that *)
(* replaces it either throws at time 1, which the playback reaches, every  *)
(* preview samples and the exposure at time 0 overlaps, or measures        *)
(* nothing at all, and is without faults in the physical mode.             *)
EXTENDS LightCurveSession

MCTrackings == {"fixed", "dynamic"}
MCPlotModes == {"physical", "measured"}
MCFaults ==
    {[bad |-> {1}, gaps |-> {}, smeared |-> {0}],
     [bad |-> {}, gaps |-> {-1, 0, 1}, smeared |-> {}]}
MCWindows == [focused \in BOOLEAN |-> IF focused THEN <<0, 1>> ELSE <<-1, 1>>]
=============================================================================
