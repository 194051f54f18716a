SPECIFICATION Spec
CONSTANTS
  NULL = NULL
  true = true
  false = false
  the_empty_list = the_empty_list
  quote_symbol = quote_symbol
  define_symbol = define_symbol
  set_bang_symbol = set_bang_symbol
  ok_symbol = ok_symbol
  if_symbol = if_symbol
  lambda_symbol = lambda_symbol
  begin_symbol = begin_symbol
  cond_symbol = cond_symbol
  else_symbol = else_symbol
  let_symbol = let_symbol
  and_symbol = and_symbol
  or_symbol = or_symbol
  add_procedure = add_procedure
  is_empty_procedure = is_empty_procedure
  is_eq_procedure = is_eq_procedure
  cons_procedure = cons_procedure
  car_procedure = car_procedure
  cdr_procedure = cdr_procedure
  set_car_procedure = set_car_procedure
  set_cdr_procedure = set_cdr_procedure
  list_procedure = list_procedure
  apply_procedure = apply_procedure
  eval_procedure = eval_procedure
  interaction_environment_procedure = interaction_environment_procedure
  null_environment_procedure = null_environment_procedure
  plus_ = plus_
  nullp_ = nullp_
  eqp_ = eqp_
  cons_ = cons_
  car_ = car_
  cdr_ = cdr_
  set_car_ = set_car_
  set_cdr_ = set_cdr_
  list_ = list_
  apply_ = apply_
  eval_ = eval_
  environment_ = environment_
  null_environment_ = null_environment_
  f = f
  x = x
  y = y
  one = one
  two = two
  OtherPrimitive = {}
  StringLiteral = {}
  Variable <- MCVariable
  init_environment <- MCInitEnvironment
  Programs <- EffectPrograms
INVARIANT SpecialsAreNeverCalled
