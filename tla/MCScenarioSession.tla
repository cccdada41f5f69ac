------------------------- MODULE MCScenarioSession -------------------------
(* One preset and one catalog entry, the fragile one.  Back can lead to the *)
(* preset in Advanced mode or to the binary lab; a file holds the preset    *)
(* with its observer turned, with Guided Lab state or without.              *)
EXTENDS ScenarioSession

MCPresets == {"default"}
MCRealSystems == {"trappist"}
MCFragile == MCRealSystems

View(product, ui, sim, preset, real) ==
    [product |-> product, ui |-> ui, sim |-> sim, preset |-> preset, real |-> real,
     profile |-> "education"]

MCViews == {View("simulation", "expert", "preset", "default", NoReal),
            View("lab", "normal", Binary, "default", NoReal)}

MCDocuments ==
    [view : {View("simulation", "expert", "preset", "default", NoReal)},
     params : {[of |-> "default", edit |-> "tilted"]}, guided : BOOLEAN]
=============================================================================
