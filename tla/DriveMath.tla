----------------------------- MODULE DriveMath -----------------------------
(***************************************************************************)
(* The arithmetic between a requested motor speed and the number written   *)
(* in the JSON frame: the int16 field of a motor command, the mounting     *)
(* sign applied to it, the narrowing back to int16 and the clamp done by   *)
(* the UART layer.                                                         *)
(***************************************************************************)
EXTENDS Integers

\* MotorCommand.rpm is an int16.
MinInt16 == -32768
MaxInt16 == 32767
Int16 == MinInt16 .. MaxInt16

\* kMinRpm .. kMaxRpm, the speed-loop range of the DDSM115.
WireRpm == -200 .. 200

\* MotorDescriptor.sign: load_params folds every configured sign to one of these.
Signs == {1, -1}

\* static_cast<int16_t>(x): two's-complement narrowing.
NarrowInt16(x) == ((x + 32768) % 65536) - 32768

\* (mutant) a clamp that forgets reverse speeds
ClampForwardOnly(x) == IF x > 200 THEN 200 ELSE x

\* std::clamp(rpm, -200, 200) at the head of DriveUart::set_speed.
ClampRpm(x) == IF x < -200 THEN -200 ELSE IF x > 200 THEN 200 ELSE x

\* (mutant) a speed that ignores how the motor is mounted
UnsignedRpm(raw, sign) == raw

\* SetAllMotors: the signed speed handed to the UART layer.
SignedRpm(raw, sign) == NarrowInt16(raw * sign)

\* The speed that reaches the frame for a raw command on a motor of that sign.
SendRpm(raw, sign) == ClampRpm(SignedRpm(raw, sign))

\* The velocity SetAllMotors publishes for an echoed wheel speed.
ReportedRpm(echoed, sign) == echoed * sign
=============================================================================
