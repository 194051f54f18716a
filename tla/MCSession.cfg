SPECIFICATION SessionSpec
CONSTANTS
  NULL = NULL
  true = true
  false = false
  the_empty_list = the_empty_list
  quote_symbol = quote_symbol
  define_symbol = define_symbol
  set_bang_symbol = set_bang_symbol
  ok_symbol = ok_symbol
  if_symbol = if_symbol
  lambda_symbol = lambda_symbol
  begin_symbol = begin_symbol
  cond_symbol = cond_symbol
  else_symbol = else_symbol
  let_symbol = let_symbol
  and_symbol = and_symbol
  or_symbol = or_symbol
  add_procedure = add_procedure
  is_empty_procedure = is_empty_procedure
  is_eq_procedure = is_eq_procedure
  cons_procedure = cons_procedure
  car_procedure = car_procedure
  cdr_procedure = cdr_procedure
  set_car_procedure = set_car_procedure
  set_cdr_procedure = set_cdr_procedure
  list_procedure = list_procedure
  apply_procedure = apply_procedure
  eval_procedure = eval_procedure
  interaction_environment_procedure = interaction_environment_procedure
  null_environment_procedure = null_environment_procedure
  plus_ = plus_
  nullp_ = nullp_
  eqp_ = eqp_
  cons_ = cons_
  car_ = car_
  cdr_ = cdr_
  set_car_ = set_car_
  set_cdr_ = set_cdr_
  list_ = list_
  apply_ = apply_
  eval_ = eval_
  environment_ = environment_
  null_environment_ = null_environment_
  f = f
  x = x
  y = y
  one = one
  two = two
  OtherPrimitive <- MCOtherPrimitive
  StringLiteral = {lib, outer, empty, info, missing}
  Variable <- SessionVariable
  init_environment <- SessionEnvironment
  Programs <- Sessions
  eof = eof
  Wild = Wild
  load_procedure = load_procedure
  read_procedure = read_procedure
  write_procedure = write_procedure
  display_procedure = display_procedure
  error_procedure = error_procedure
  start_environment_procedure = start_environment_procedure
  gc_info_procedure = gc_info_procedure
  is_boolean_procedure = is_boolean_procedure
  is_symbol_procedure = is_symbol_procedure
  is_integer_procedure = is_integer_procedure
  is_string_procedure = is_string_procedure
  is_pair_procedure = is_pair_procedure
  is_procedure_procedure = is_procedure_procedure
  is_eof_procedure = is_eof_procedure
  load_ = load_
  read_ = read_
  write_ = write_
  display_ = display_
  error_ = error_
  start_ = start_
  gc_info_ = gc_info_
  booleanp_ = booleanp_
  symbolp_ = symbolp_
  integerp_ = integerp_
  stringp_ = stringp_
  pairp_ = pairp_
  procedurep_ = procedurep_
  eofp_ = eofp_
  lib = lib
  outer = outer
  empty = empty
  info = info
  missing = missing
INVARIANT NoUseAfterFree
INVARIANT RootsMatchFrames
INVARIANT EnvironmentsMatchFrames
INVARIANT CleanBetweenInputs
INVARIANT NothingWildEscapes
INVARIANT PrintsWhatItShould
PROPERTY EnvironmentIsRestored
PROPERTY SessionEnds
