--------------------------- MODULE MCSettingsForm ---------------------------
\* Instances of SettingsForm: a section of one camera, which the page also
\* shows for another, and the go2rtc streams on a page of their own.
EXTENDS SettingsForm, TLC

CONSTANTS detect, go2rtc, c1, c2, s1, s2

MCKeys == {detect, go2rtc}
MCPages == {"cameraDetect", "systemGo2rtcStreams"}
MCPageOf == [k \in MCKeys |-> IF k = go2rtc THEN "systemGo2rtcStreams"
                              ELSE "cameraDetect"]
MCCameraOf == [k \in MCKeys |-> IF k = go2rtc THEN NoCamera ELSE c1]
MCDefault == [k \in MCKeys |-> 0]
\* Saves of single sections are alike.
SlotSymmetry == Permutations({s1, s2})
=============================================================================
