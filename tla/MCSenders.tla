----------------------------- MODULE MCSenders ------------------------------
(***************************************************************************)
(* Encoder and Recoder over the field of MCField, one of them at a time:   *)
(* whichever is called first is the one a behaviour is about. Together,    *)
(* over a network, they are in module Pipeline.                            *)
(***************************************************************************)
EXTENDS Encoder, Recoder, MCSymbols

SendersInit == EncoderInit /\ RecoderInit

EncoderAlone == rec_ret = "new" /\ EncoderNext /\ UNCHANGED recoderVars
RecoderAlone == enc_ret = "new" /\ RecoderNext /\ UNCHANGED encoderVars

SendersNext == EncoderAlone \/ RecoderAlone

SendersSpec ==
  /\ SendersInit
  /\ [][SendersNext]_<<encoderVars, recoderVars>>
  /\ WF_<<encoderVars, recoderVars>>(EncoderStep /\ UNCHANGED recoderVars)
  /\ WF_<<encoderVars, recoderVars>>(RecoderStep /\ UNCHANGED encoderVars)

(***************************************************************************)
(* Both retry loops give up: whatever is drawn, even zeros for ever,       *)
(* encode_random and recode return.                                        *)
(***************************************************************************)
SendersReturn == EncodeAlwaysReturns /\ RecodeAlwaysReturns
=============================================================================
