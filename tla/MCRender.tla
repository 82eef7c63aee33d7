------------------------------ MODULE MCRender ------------------------------
(* The browser and the CAPTCHAs of the playwright worker in one run. A job     *)
(* waits for a CAPTCHA without a browser and neither module reads the other's  *)
(* state, so each takes its steps while the other is at its start.             *)
EXTENDS Browser, Captcha, TLC

VARIABLE part

Init == BrowserInit /\ CaptchaInit /\ part \in {"browser", "captcha"}
BrowserPart == part = "browser" /\ BrowserNext /\ UNCHANGED <<captchaVars, part>>
CaptchaPart(Step) == part = "captcha" /\ Step /\ UNCHANGED <<browserVars, part>>
Next == BrowserPart \/ CaptchaPart(CaptchaNext)

allVars == <<browserVars, captchaVars, part>>
Spec ==
    /\ Init /\ [][Next]_allVars
    /\ WF_allVars(CaptchaPart(CaptchaTick)) /\ WF_allVars(CaptchaPart(CaptchaStep))

MCBackoff == <<3, 15>>
=============================================================================
