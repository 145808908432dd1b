---------------------------- MODULE MCParamPanel ----------------------------
(* An instance of ParamPanel for TLC. *)
EXTENDS ParamPanel

\* Two of each, at the edges: an id that does not fit a byte, a sign that launch files may
\* hold and requests may not, lists shorter than the count.
SomeValues == [
  backend            |-> {"sim", "hardware"},
  motor_count        |-> {1, 2},
  motor_ids          |-> {<<1, 258>>, <<0>>},
  motor_signs        |-> {<<-1, 1>>, <<-3>>},
  motor_enabled      |-> {<<TRUE, TRUE>>, <<FALSE>>},
  feedback_rate      |-> {1, 50},
  command_timeout_ms |-> {50, 500}]

Default == [
  backend |-> "sim", motor_count |-> 2, motor_ids |-> <<1, 258>>, motor_signs |-> <<-1, 1>>,
  motor_enabled |-> <<TRUE, TRUE>>, feedback_rate |-> 1, command_timeout_ms |-> 500]

LaunchFiles == {[Default EXCEPT !.motor_signs = <<-3>>, !.motor_enabled = <<FALSE>>]}

Set(n, v) == [name |-> n, value |-> v]

\* A hot parameter before one of the hardware; with the page's table the rate also goes back.
SomeRequests == {<<Set("feedback_rate", 50), Set("motor_ids", <<0>>)>>}

SomeEdits == {Set("command_timeout_ms", 50)}
=============================================================================
